---- MODULE Spec2Model ----
(***************************************************************************)
(* Model of the document-conversion endpoint of all-convertion:            *)
(* POST /api/convert-document and its orchestrator performCloudConversion  *)
(* (src/src/app/api/convert-document/route.ts).                            *)
(*                                                                         *)
(* One request is followed from the parsed form data to the HTTP response. *)
(* Every await of the handler is a suspension point: the action named      *)
(* XReturns models the code that runs from the moment the awaited promise  *)
(* X settles up to the next await (or up to the response).  The remote     *)
(* service, the filesystem and the HTTP fetch are the environment; their   *)
(* answers are drawn with \E from small sets.                              *)
(*                                                                         *)
(* Strings that the code transforms (file names, formats) are sequences of *)
(* one-character strings; messages are sequences of text fragments, so     *)
(* that template literals are concatenations and "contains" is a real      *)
(* subsequence test.                                                       *)
(***************************************************************************)
EXTENDS Integers, Sequences, FiniteSets, TLC

(***************************************************************************)
(* Bounds of the model (not program constants).                            *)
(***************************************************************************)
MaxFiles == 2
MaxBytes == 1
\* Largest number of concurrent calls of performCloudConversion.
MaxCalls == 2
\* Largest number of files dropped on the document converter page.
MaxDrops == 2

\* Largest number of pages of an uploaded image.
MaxPages == 2
\* Largest number of images dropped on the image converter page.
MaxImages == 3

(***************************************************************************)
(* Character level helpers.                                                *)
(***************************************************************************)
UpperCase ==
  <<"A","B","C","D","E","F","G","H","I","J","K","L","M",
    "N","O","P","Q","R","S","T","U","V","W","X","Y","Z">>

LowerCase ==
  <<"a","b","c","d","e","f","g","h","i","j","k","l","m",
    "n","o","p","q","r","s","t","u","v","w","x","y","z">>

\* String.prototype.toLowerCase on one character.
ToLowerChar(c) ==
  IF \E i \in 1..26 : UpperCase[i] = c
    THEN LowerCase[CHOOSE i \in 1..26 : UpperCase[i] = c]
    ELSE c

\* Mutant: the string is used as the client wrote it.
ToLowerCase_Identity(s) == s

\* String.prototype.toLowerCase.
ToLowerCase(s) == [i \in 1..Len(s) |-> ToLowerChar(s[i])]

\* The character U+6587, written as a token: a character above U+00FF.
Char_U6587 == "U+6587"

\* Headers.prototype.set converts the value to a ByteString and throws a
\* TypeError when a character of it is above U+00FF.
IsByteString(s) == \A i \in 1..Len(s) : s[i] # Char_U6587

\* s.slice(a, b) with 1-based inclusive a and exclusive b.
Slice(s, a, b) == IF b <= a THEN <<>> ELSE SubSeq(s, a, b - 1)

\* String.prototype.includes: sub occurs in s as a contiguous run.
Contains(s, sub) ==
  \E i \in 1..(Len(s) - Len(sub) + 1) : SubSeq(s, i, i + Len(sub) - 1) = sub

SetMax(S) == CHOOSE m \in S : \A x \in S : x <= m
SetMin(S) == CHOOSE m \in S : \A x \in S : m <= x

(***************************************************************************)
(* Program constants of route.ts.                                          *)
(***************************************************************************)
Str_pdf  == <<"p","d","f">>
Str_docx == <<"d","o","c","x">>
Str_txt  == <<"t","x","t">>
Str_html == <<"h","t","m","l">>
Str_odt  == <<"o","d","t">>
Str_pptx == <<"p","p","t","x">>
Str_jpg  == <<"j","p","g">>
Str_png  == <<"p","n","g">>
Str_doc  == <<"d","o","c">>
Str_rtf  == <<"r","t","f">>

\* const SUPPORTED_DOC_OUTPUT_FORMATS_API = [...]
SUPPORTED_DOC_OUTPUT_FORMATS_API ==
  <<Str_pdf, Str_docx, Str_txt, Str_html, Str_odt, Str_pptx, Str_jpg, Str_png>>

\* Array.prototype.includes on the allow-list.
Includes(list, x) == \E i \in 1..Len(list) : list[i] = x

\* const EXT_TO_MIMETYPE: the keys and, by position, the values.
MimeKeys ==
  <<Str_pdf, Str_docx, Str_txt, Str_html, Str_odt, Str_pptx, Str_jpg, Str_png>>

MimeValues ==
  <<"application/pdf",
    "application/vnd.openxmlformats-officedocument.wordprocessingml.document",
    "text/plain",
    "text/html",
    "application/vnd.oasis.opendocument.text",
    "application/vnd.openxmlformats-officedocument.presentationml.presentation",
    "image/jpeg",
    "image/png">>

\* EXT_TO_MIMETYPE[key] || 'application/octet-stream'
MimeTypeFor(key) ==
  IF \E i \in 1..Len(MimeKeys) : MimeKeys[i] = key
    THEN MimeValues[CHOOSE i \in 1..Len(MimeKeys) : MimeKeys[i] = key]
    ELSE "application/octet-stream"

\* Names of the three tasks of the job description.
ImportTask  == "import-file"
ConvertTask == "convert-file"
ExportTask  == "export-file"
TaskNames   == {ImportTask, ConvertTask, ExportTask}

(***************************************************************************)
(* Inputs of a request.                                                    *)
(***************************************************************************)
\* "report.docx"
Name_report_docx == <<"r","e","p","o","r","t",".","d","o","c","x">>
\* "report.pdf"
Name_report_pdf  == <<"r","e","p","o","r","t",".","p","d","f">>

\* File names a multipart request can carry in its document part.
FileNames ==
  { Name_report_docx,
    <<"a">>,                              \* no extension
    <<".","c">>,                          \* leading dot only
    <<"a",".","b",".","c">>,              \* two dots
    <<"d","/","a",".","c">>,              \* carries a directory part
    <<".",".","/","a",".","c">>,          \* carries a parent reference
    <<Char_U6587,".","c">> }              \* carries a character above U+00FF

\* Values of the targetFormat form field.
Formats ==
  { Str_pdf,
    <<"T","X","T">>,                      \* in the allow-list up to case
    <<"d","o","c">>,                      \* not in the allow-list
    <<>> }                                \* empty string

(***************************************************************************)
(* Messages: sequences of text fragments.                                  *)
(***************************************************************************)
NoMessage == <<>>
MsgUnsupported  == <<"Unsupported output format">>
MsgImportFailed == <<"Import failed">>
MsgInputFailed  == <<"Input task has failed">>
MsgJobFailed    == <<"Job failed">>

\* The message the remote service attaches to a failed task of that name.
TaskMessage(name) ==
  CASE name = ConvertTask -> MsgUnsupported
    [] name = ImportTask  -> MsgImportFailed
    [] OTHER              -> MsgInputFailed

(***************************************************************************)
(* Answers of the remote service.                                          *)
(***************************************************************************)
NoUrl    == "NoUrl"
SomeUrl  == "https://storage/result"

\* Filename the remote service gives to a result file.
RemoteName == <<"o","u","t",".","p","d","f">>

\* A result file descriptor {url, filename}: with both, without a filename,
\* with neither.
Descriptors ==
  { [filename |-> RemoteName, url |-> SomeUrl],
    [filename |-> <<>>,       url |-> SomeUrl],
    [filename |-> <<>>,       url |-> NoUrl] }

SeqsUpTo(S, n) == UNION {[1..k -> S] : k \in 0..n}

\* task.result: absent, or present with its files list.
NoResult == [present |-> FALSE, files |-> <<>>]

Results == {NoResult} \cup [present : {TRUE}, files : SeqsUpTo(Descriptors, MaxFiles)]

\* A result left on a task that ended in error.
StaleResult ==
  [present |-> TRUE, files |-> <<[filename |-> RemoteName, url |-> SomeUrl]>>]

\* A task of a completed job.  Only the export task's result is read, so
\* only the export task is given one.
TasksNamed(name) ==
  { [name |-> name, status |-> "error", message |-> m, result |-> r] :
        m \in {NoMessage, TaskMessage(name)},
        r \in IF name = ExportTask THEN {NoResult, StaleResult} ELSE {NoResult} }
  \cup
  { [name |-> name, status |-> "finished", message |-> NoMessage, result |-> r] :
        r \in IF name = ExportTask THEN Results ELSE {NoResult} }

\* All orders of a set of task names.
Perms(S) == { p \in [1..Cardinality(S) -> S] : \A i, j \in 1..Cardinality(S) :
                                                   i # j => p[i] # p[j] }

\* job.tasks of a completed job: tasks with distinct names, in any order.
TaskLists ==
  UNION { { t \in [1..Len(p) -> UNION {TasksNamed(n) : n \in TaskNames}] :
              \A i \in 1..Len(p) : t[i].name = p[i] } :
          p \in UNION {Perms(S) : S \in SUBSET TaskNames} }

\* The job cloudConvert.jobs.wait resolves with; only a job that ended in
\* error carries a message of its own.
CompletedJobs ==
  [status : {"error"}, message : {NoMessage, MsgJobFailed}, tasks : TaskLists]
  \cup [status : {"finished"}, message : {NoMessage}, tasks : TaskLists]

NoJob == [id |-> "none", hasImportTask |-> FALSE]

\* The job cloudConvert.jobs.create resolves with: its import task is there
\* (with an id) or not.
CreatedJobs == [id : {"job-1"}, hasImportTask : BOOLEAN]

\* error.message of a rejected promise of the environment.
MsgNetwork == <<"network error">>

\* The Response the download fetch resolves with.
DownloadResponses == [ok : BOOLEAN, hasBody : BOOLEAN, size : 0..MaxBytes]

(***************************************************************************)
(* Pure functions of performCloudConversion.                               *)
(***************************************************************************)

\* path.parse(p).name of Node's POSIX path module: the last path component
\* (trailing slashes ignored) up to its last dot; the component has no
\* extension when it has no dot, when its last dot is its first character,
\* or when it is "..".
PathParseName(p) ==
  LET n          == Len(p)
      isAbsolute == n > 0 /\ p[1] = "/"
      start      == IF isAbsolute THEN 2 ELSE 1
      nonSlash   == {i \in start..n : p[i] # "/"}
  IN  IF nonSlash = {} THEN <<>>
      ELSE
        LET last      == SetMax(nonSlash)            \* end - 1
            slashes   == {i \in start..last : p[i] = "/"}
            startPart == IF slashes = {} THEN 1 ELSE SetMax(slashes) + 1
            from      == IF startPart = 1 /\ isAbsolute THEN 2 ELSE startPart
            dots      == {i \in from..last : p[i] = "."}
            startDot  == IF dots = {} THEN 0 ELSE SetMax(dots)
            preDotState ==
              IF startDot = 0 \/ startDot = from THEN 0
              ELSE IF p[from] = "." THEN 1 ELSE -1
        IN  IF \/ startDot = 0
               \/ preDotState = 0
               \/ (preDotState = 1 /\ startDot = last /\ startDot = startPart + 1)
              THEN Slice(p, from, last + 1)
              ELSE Slice(p, from, startDot)

(***************************************************************************)
(* Paths of the staging area.  A path is the sequence of its components.   *)
(***************************************************************************)
\* os.tmpdir()
TmpRoot == << <<"t","m","p">> >>

\* The random suffixes fs.mkdtemp can append to the prefix 'cc-upload-'.
DirSuffixes == <<"1", "2", "3", "4", "5", "6">>

\* The directory fs.mkdtemp(path.join(os.tmpdir(), 'cc-upload-')) creates
\* with the d-th suffix.
TempDirPath(d) == Append(TmpRoot, <<"cc-upload-", DirSuffixes[d]>>)

\* The components of a file name, split at its slashes.
RECURSIVE SplitPath(_)
SplitPath(name) ==
  IF \A i \in 1..Len(name) : name[i] # "/"
    THEN <<name>>
    ELSE LET k == SetMin({i \in 1..Len(name) : name[i] = "/"})
         IN  <<SubSeq(name, 1, k - 1)>> \o SplitPath(SubSeq(name, k + 1, Len(name)))

\* path.normalize on components: empty and "." components are dropped, ".."
\* removes the component before it (and is dropped at the root).
RECURSIVE Normalize(_, _)
Normalize(done, rest) ==
  IF rest = <<>> THEN done
  ELSE LET seg == Head(rest)
       IN  IF seg = <<>> \/ seg = <<".">>
             THEN Normalize(done, Tail(rest))
           ELSE IF seg = <<".", ".">>
             THEN Normalize(IF done = <<>> THEN done
                            ELSE SubSeq(done, 1, Len(done) - 1), Tail(rest))
           ELSE Normalize(Append(done, seg), Tail(rest))

\* const tempFilePath = path.join(tempDir, inputFile.name)
TempFilePath(tempDir, name) == Normalize(tempDir, SplitPath(name))

\* The path lies below the directory, so a recursive removal of the
\* directory removes it.
IsBelow(path, dir) == Len(path) > Len(dir) /\ SubSeq(path, 1, Len(dir)) = dir

\* fs.writeFile can create the file: its parent directory exists (the
\* temporary directories in `dirs`, os.tmpdir() and the root are the
\* directories there are) and the path is not itself a directory.
CanWriteFile(path, dirs) ==
  LET isDir(q) == q = <<>> \/ q = TmpRoot \/ \E d \in dirs : q = TempDirPath(d)
  IN  /\ path # <<>>
      /\ ~isDir(path)
      /\ isDir(SubSeq(path, 1, Len(path) - 1))

\* completedJob.tasks?.find(t => t.status === 'error')
HasFailedTask(cj) == \E i \in 1..Len(cj.tasks) : cj.tasks[i].status = "error"

FailedTask(cj) ==
  cj.tasks[SetMin({i \in 1..Len(cj.tasks) : cj.tasks[i].status = "error"})]

\* Mutant: the first error task that carries a message is looked for.
FailureCause_AnyTask(cj) ==
  LET carrying == {i \in 1..Len(cj.tasks) :
                     cj.tasks[i].status = "error" /\ cj.tasks[i].message # NoMessage}
  IN  IF carrying # {} THEN cj.tasks[SetMin(carrying)].message
      ELSE IF cj.message # NoMessage THEN cj.message
      ELSE <<"Unknown error">>

\* Mutant: the job-level message is preferred to the task-level one.
FailureCause_JobFirst(cj) ==
  IF cj.message # NoMessage
    THEN cj.message
  ELSE IF HasFailedTask(cj) /\ FailedTask(cj).message # NoMessage
    THEN FailedTask(cj).message
  ELSE <<"Unknown error">>

\* failedTask?.message || completedJob.message || 'Unknown error'
FailureCause(cj) ==
  IF HasFailedTask(cj) /\ FailedTask(cj).message # NoMessage
    THEN FailedTask(cj).message
  ELSE IF cj.message # NoMessage
    THEN cj.message
  ELSE <<"Unknown error">>

\* `CloudConvert job failed: ${...}`
JobFailedMessage(cj) == <<"CloudConvert job failed: ">> \o FailureCause(cj)

\* completedJob.tasks?.find(task => task.name === 'export-file')
HasExportTask(cj) == \E i \in 1..Len(cj.tasks) : cj.tasks[i].name = ExportTask

FindExportTask(cj) ==
  cj.tasks[SetMin({i \in 1..Len(cj.tasks) : cj.tasks[i].name = ExportTask})]

\* Mutant: the status of the export task is not examined.
ExportProducedFile_NoStatus(cj) ==
  /\ HasExportTask(cj)
  /\ FindExportTask(cj).result.present
  /\ Len(FindExportTask(cj).result.files) # 0

\* The negation of the condition of the throw at line 92.
ExportProducedFile(cj) ==
  /\ HasExportTask(cj)
  /\ FindExportTask(cj).status = "finished"
  /\ FindExportTask(cj).result.present
  /\ Len(FindExportTask(cj).result.files) # 0

\* Mutant: the export task is examined before the job status.
JobVerdict_ExportFirst(cj) ==
  IF ~ExportProducedFile(cj) THEN "export-missing"
  ELSE IF cj.status = "error" THEN "remote-processing"
  ELSE "download"

\* Lines 85-95: what the orchestrator does with the completed job: the step
\* it fails at, or "download" when it goes on to fetch the result.
JobVerdict(cj) ==
  IF cj.status = "error" THEN "remote-processing"
  ELSE IF ~ExportProducedFile(cj) THEN "export-missing"
  ELSE "download"

\* Mutant: the last descriptor is taken.
ResultFile_Last(cj) ==
  FindExportTask(cj).result.files[Len(FindExportTask(cj).result.files)]

\* const resultFile = exportTask.result.files[0]
ResultFile(cj) == FindExportTask(cj).result.files[1]

\* resultFile.filename || `${path.parse(inputFile.name).name}.${targetFormat}`
ConvertedFileName(resultFile, inputName, targetFormat) ==
  IF resultFile.filename # <<>>
    THEN resultFile.filename
    ELSE PathParseName(inputName) \o <<".">> \o targetFormat

\* Mutant: the rethrown error drops the message of the error it caught.
ProcessingFailedMessage_NoCause(message) == <<"CloudConvert processing failed: ">>

\* `CloudConvert processing failed: ${error.message}`
ProcessingFailedMessage(message) == <<"CloudConvert processing failed: ">> \o message

(***************************************************************************)
(* State of one request.                                                   *)
(***************************************************************************)
VARIABLES
  pc,                \* the await the handler is suspended at
  req,               \* the parsed form data of the request
  job,               \* `job` of performCloudConversion
  tempDirExists,     \* filesystem: the cc-upload- directory exists
  tempFileExists,    \* filesystem: the staged payload exists
  completedJob,      \* `completedJob`
  convertedFileName, \* `convertedFileName`
  resultUrl,         \* resultFile.url
  downloadResponse,  \* `downloadResponse`, once the fetch has resolved
  downloadSize,      \* byte length of the body of downloadResponse
  outputFormat,      \* output_format of the convert task sent to the service
  trace,             \* what the call has started and how each step ended, in order
  outcome,           \* how performCloudConversion ended
  response,          \* the HTTP response of POST
  cancelled,         \* the client has aborted the request (req.signal)
  callPc,            \* concurrent calls: the await each call is suspended at
  callName,          \* concurrent calls: inputFile.name of each call
  callJob,           \* concurrent calls: job.id of each call
  callDir,           \* concurrent calls: `tempDir` of each call
  callUploaded,      \* concurrent calls: whose payload each call's import task received
  fsDirs,            \* filesystem: the cc-upload- directories that exist
  fsFiles,           \* filesystem: the files that exist, with their content
  docPage,           \* the state of DocumentConverterPage and its running handleConvert
  imgPage,           \* the state of ImageConverterPage and its running handlers
  imgReq,            \* a request to POST /api/convert and its answer
  trReq              \* a request to POST /api/transcribe-video and its session directory

\* The calls of performCloudConversion that run concurrently, and the
\* filesystem they share.
callVars == <<callPc, callName, callJob, callDir, callUploaded, fsDirs, fsFiles>>

\* What the handler of a request never reads or writes.
otherVars == <<cancelled, callVars, docPage, imgPage, imgReq, trReq>>

\* The pages and the other routes of the site.
siteVars == <<docPage, imgPage, imgReq, trReq>>

Calls == 1..MaxCalls

vars ==
  <<pc, req, job, tempDirExists, tempFileExists, completedJob, convertedFileName,
    resultUrl, downloadResponse, downloadSize, outputFormat, trace, outcome,
    response, otherVars>>

NoRequest ==
  [hasKey |-> FALSE, hasForm |-> FALSE, hasDocument |-> FALSE, fileName |-> <<>>,
   hasInputFileName |-> FALSE, hasTargetFormat |-> FALSE, targetFormat |-> <<>>]

NoCompletedJob == [status |-> "none", message |-> NoMessage, tasks |-> <<>>]

NoOutcome  == [kind |-> "none", stage |-> "none", cause |-> NoMessage,
               message |-> NoMessage, size |-> 0, fileName |-> <<>>]

NoDownloadResponse == [received |-> FALSE, ok |-> FALSE, hasBody |-> FALSE, size |-> 0]

NoResponse == [status |-> 0, contentType |-> "none", fileName |-> <<>>,
               error |-> NoMessage, details |-> NoMessage, size |-> 0]

(***************************************************************************)
(* State of the document converter page (document-converter/page.tsx).     *)
(***************************************************************************)
\* const SUPPORTED_DOC_OUTPUT_FORMATS = [...]
SUPPORTED_DOC_OUTPUT_FORMATS ==
  <<Str_pdf, Str_docx, Str_doc, Str_rtf, Str_txt, Str_html, Str_odt, Str_pptx>>

\* selectedFile === null
NoFile == [id |-> 0, name |-> <<>>, type |-> ""]

\* convertedFileUrl === null; an object URL otherwise, with the document
\* and the target format of the conversion whose blob it points to.
NoObjectUrl == [present |-> FALSE, file |-> 0, format |-> <<>>]

\* No handleConvert is running.
NoConvert == [stage |-> "none", file |-> NoFile, format |-> <<>>, response |-> NoResponse]

\* The useState initial values, lines 34-40.
DocPageInit ==
  [selectedFile |-> NoFile, targetFormat |-> SUPPORTED_DOC_OUTPUT_FORMATS[1],
   isConverting |-> FALSE, convertedFileUrl |-> NoObjectUrl,
   convertedFileName |-> <<>>, error |-> NoMessage, fileName |-> <<>>,
   convert |-> NoConvert, drops |-> 0]

(***************************************************************************)
(* State of one POST /api/convert request (api/convert/route.ts).          *)
(***************************************************************************)
Str_jpeg == <<"j","p","e","g">>
Str_webp == <<"w","e","b","p">>
Str_gif  == <<"g","i","f">>
Str_avif == <<"a","v","i","f">>
Str_tiff == <<"t","i","f","f">>

\* The own keys of SUPPORTED_FORMATS, lines 5-12.
SUPPORTED_FORMATS == <<Str_jpeg, Str_png, Str_webp, Str_gif, Str_avif, Str_tiff>>

\* A key SUPPORTED_FORMATS inherits from Object.prototype: the lookup of
\* line 43 finds a function under it, which is truthy.
Str_constructor == <<"constructor">>

\* SUPPORTED_FORMATS[targetFormat] is truthy.
FormatLookupTruthy(targetFormat) ==
  Includes(SUPPORTED_FORMATS, targetFormat) \/ targetFormat = Str_constructor

\* Characters of file names outside printable ASCII: a control character,
\* a Latin-1 letter, and Char_U6587.
Char_Tab == "U+0009"
Char_E9  == "U+00E9"

\* [^\x20-\x7E]
OutsidePrintableAscii(c) == c \in {Char_Tab, Char_E9, Char_U6587}

\* [\\/:*?"<>|]
ProblematicChars == {"\\", "/", ":", "*", "?", "\"", "<", ">", "|"}

\* s.lastIndexOf('.'), 0-based, -1 when s has no dot.
LastIndexOfDot(s) ==
  IF \E i \in 1..Len(s) : s[i] = "."
    THEN SetMax({i \in 1..Len(s) : s[i] = "."}) - 1
    ELSE -1

\* s.substring(0, end): a negative end counts as 0.
Substring0(s, end) == IF end <= 0 THEN <<>> ELSE SubSeq(s, 1, end)

\* Lines 18 and 79: name.substring(0, name.lastIndexOf('.')) || name.
NamePart(originalFilename) ==
  IF Substring0(originalFilename, LastIndexOfDot(originalFilename)) # <<>>
    THEN Substring0(originalFilename, LastIndexOfDot(originalFilename))
    ELSE originalFilename

\* Mutant: only the first replace call of line 20 is made.
SafeNamePart_FirstReplaceOnly(namePart) ==
  [i \in 1..Len(namePart) |->
     IF OutsidePrintableAscii(namePart[i]) THEN "_" ELSE namePart[i]]

\* Line 20: the two replace calls.
SafeNamePart(namePart) ==
  [i \in 1..Len(namePart) |->
     IF OutsidePrintableAscii(namePart[i]) \/ namePart[i] \in ProblematicChars
       THEN "_" ELSE namePart[i]]

\* Lines 17-22.
getSafeAsciiFilename(originalFilename, targetFormat) ==
  SafeNamePart(NamePart(originalFilename)) \o <<".">> \o targetFormat

\* encodeURIComponent, character by character: the unreserved characters
\* stay, every other one becomes the percent escapes of its UTF-8 bytes.
EncodeChar(c) ==
  CASE c = " "  -> "%20"
    [] c = "\"" -> "%22"
    [] c = "/"  -> "%2F"
    [] c = Char_Tab -> "%09"
    [] c = Char_E9 -> "%C3%A9"
    [] c = Char_U6587 -> "%E6%96%87"
    [] OTHER -> c

EncodeURIComponent(s) == [i \in 1..Len(s) |-> EncodeChar(s[i])]

\* Names of uploaded images.
ImgFileNames ==
  { <<"a",".","p","n","g">>,
    <<"a">>,
    <<".","c">>,
    <<"a",".","b",".","c">>,
    <<"a","\"","b",".","c">>,
    <<"a","/",Char_Tab,".","c">>,
    <<Char_U6587," ",Char_E9,".","c">> }

\* Values of the format form field: the supported ones, one in upper case,
\* an empty one, and an inherited key.
ImgFormats ==
  {SUPPORTED_FORMATS[i] : i \in 1..Len(SUPPORTED_FORMATS)}
    \cup {<<"P","N","G">>, <<>>, Str_constructor}

\* SUPPORTED_FORMATS[targetFormat].mime
ImgMimeFor(targetFormat) ==
  CASE targetFormat = Str_jpeg -> "image/jpeg"
    [] targetFormat = Str_png  -> "image/png"
    [] targetFormat = Str_webp -> "image/webp"
    [] targetFormat = Str_gif  -> "image/gif"
    [] targetFormat = Str_avif -> "image/avif"
    [] targetFormat = Str_tiff -> "image/tiff"
    [] OTHER -> "undefined"

NoImgResponse ==
  [status |-> 0, contentType |-> "none", error |-> NoMessage, details |-> NoMessage,
   asciiFallback |-> <<>>, encodedName |-> <<>>, animated |-> FALSE]

\* No request yet.  `pages` is metadata.pages of the uploaded image (0 when
\* sharp reports none), `animated` whether the sharp instance reads all the
\* pages, `failedAt` the statement the error came from.
ImgReqInit ==
  [pc |-> "idle", hasFile |-> FALSE, fileName |-> <<>>, hasFormat |-> FALSE,
   targetFormat |-> <<>>, pages |-> 0, animated |-> FALSE, failedAt |-> "none",
   response |-> NoImgResponse]

(***************************************************************************)
(* State of one POST /api/transcribe-video request                         *)
(* (api/transcribe-video/route.ts).                                        *)
(***************************************************************************)
\* The directory fs.mkdtemp(path.join(os.tmpdir(), 'transcribe-session-'))
\* creates.
SessionDir == Append(TmpRoot, <<"transcribe-session-", "1">>)

NoTrResponse == [status |-> 0, error |-> NoMessage, transcription |-> FALSE]

\* No request yet.  `files` are the paths written by the request that
\* exist, `written` all the paths it has written, `pending` the response a
\* return or the catch has produced while the finally block runs,
\* `rmFailed` whether the fs.rm of the finally block rejected.
TrReqInit ==
  [pc |-> "idle", operationType |-> "none", hasVideo |-> FALSE, fileName |-> <<>>,
   hasUrl |-> FALSE, dirExists |-> FALSE, files |-> {}, written |-> {},
   audioPath |-> <<>>, pending |-> NoTrResponse, rmFailed |-> FALSE,
   response |-> NoTrResponse]

(***************************************************************************)
(* State of the image converter page (page.tsx).                           *)
(***************************************************************************)
\* const SUPPORTED_OUTPUT_FORMATS = [...]
SUPPORTED_OUTPUT_FORMATS == <<Str_jpeg, Str_png, Str_webp, Str_gif, Str_avif, Str_tiff>>

\* const MIN_FILES_FOR_ZIP = 3
MIN_FILES_FOR_ZIP == 3

\* Names of the images a user drops, and the formats a user picks in the
\* select.
ImgPageNames ==
  { <<"a",".","p","n","g">>, <<"a",".","j","p","g">>, <<"b",".","p","n","g">>, <<"a">> }

ImgChosenFormats == {SUPPORTED_OUTPUT_FORMATS[1], SUPPORTED_OUTPUT_FORMATS[2]}

\* No handleConvertAll is running.  A running one has the files it took
\* from the list when it started (`queue`), the position of the file it
\* is converting, and the target format of the render it started in.
NoBatch == [stage |-> "none", queue |-> <<>>, idx |-> 0, format |-> <<>>]

\* No ZIP is being generated, none was saved.  `entries` are the entries
\* of the JSZip object (name and file), `count` the number of converted
\* images put into it.
NoZip == [stage |-> "none", entries |-> {}, count |-> 0]

\* The useState initial values, lines 28-32.  An element of `files` has
\* the id, the name and the status of the file, whether it still is the
\* File object that was dropped, whether it has a converted URL (and blob)
\* and its converted name, and whether its preview URL and its converted
\* URL have been revoked.  `names` are the names dropped so far.
ImgPageInit ==
  [files |-> <<>>, targetFormat |-> SUPPORTED_OUTPUT_FORMATS[1],
   isBatchConverting |-> FALSE, globalError |-> NoMessage, isZipping |-> FALSE,
   batch |-> NoBatch, zip |-> NoZip, savedZip |-> NoZip, names |-> {}]

Init ==
  /\ pc = "idle"
  /\ req = NoRequest
  /\ job = NoJob
  /\ tempDirExists = FALSE
  /\ tempFileExists = FALSE
  /\ completedJob = NoCompletedJob
  /\ convertedFileName = <<>>
  /\ resultUrl = NoUrl
  /\ downloadResponse = NoDownloadResponse
  /\ downloadSize = 0
  /\ outputFormat = <<>>
  /\ trace = <<>>
  /\ outcome = NoOutcome
  /\ response = NoResponse
  /\ cancelled = FALSE
  /\ callPc = [c \in Calls |-> "idle"]
  /\ callName = [c \in Calls |-> <<>>]
  /\ callJob = [c \in Calls |-> 0]
  /\ callDir = [c \in Calls |-> 0]
  /\ callUploaded = [c \in Calls |-> 0]
  /\ fsDirs = {}
  /\ fsFiles = {}
  /\ docPage = DocPageInit
  /\ imgPage = ImgPageInit
  /\ imgReq = ImgReqInit
  /\ trReq = TrReqInit

\* NextResponse.json({ error }, { status })
JsonResponse(status, error) ==
  [status |-> status, contentType |-> "application/json", fileName |-> <<>>,
   error |-> error, details |-> NoMessage, size |-> 0]

\* Lines 148-153: the response built from the orchestrator's result.
FileResponse(targetFormat, size, fileName) ==
  [status |-> 200, contentType |-> MimeTypeFor(ToLowerCase(targetFormat)),
   fileName |-> fileName, error |-> NoMessage, details |-> NoMessage,
   size |-> size]

\* An error of the CloudConvert client: one that comes with an HTTP response
\* has the body of that response in error.response.data.
MsgUnauthorized == <<"Request failed with status code 401">>
DataUnauthenticated == <<"Unauthenticated.">>

ResponseDataOf(message) ==
  IF message = MsgUnauthorized THEN DataUnauthenticated ELSE NoMessage

\* The error an operation inside the try block rejects with.
ThrownError(message) ==
  [message |-> message, details |-> NoMessage,
   responseData |-> ResponseDataOf(message)]

\* Line 113: new Error(`CloudConvert processing failed: ${error.message}`).
WrappedError(error) ==
  [message |-> ProcessingFailedMessage(error.message), details |-> NoMessage,
   responseData |-> NoMessage]

\* Line 162: error.details || error.response?.data || null.
ErrorDetails(error) ==
  IF error.details # NoMessage THEN error.details ELSE error.responseData

\* Lines 157-163: the 500 response of the catch of POST.
ErrorResponse(error) ==
  [JsonResponse(500, error.message) EXCEPT !.details = ErrorDetails(error)]

\* Mutant: the catch of POST answers the error with status 200.
Throw_Status200(stage, event, message) ==
  /\ trace' = Append(trace, event)
  /\ outcome' = [kind |-> "fail", stage |-> stage, cause |-> message,
                 message |-> ProcessingFailedMessage(message),
                 size |-> 0, fileName |-> <<>>]
  /\ response' = JsonResponse(200, ProcessingFailedMessage(message))
  /\ pc' = "done"

\* An error thrown inside the try block of performCloudConversion: the catch
\* at lines 110-114 rethrows it wrapped, and the catch of POST at lines
\* 155-164 answers 500 with the wrapped message.  `stage` records the step
\* of the orchestration the error comes from; the code keeps no such tag.
\* `cause` records error.message of the error that was caught.
Throw(stage, event, message) ==
  /\ trace' = Append(trace, event)
  /\ outcome' = [kind |-> "fail", stage |-> stage, cause |-> message,
                 message |-> ProcessingFailedMessage(message),
                 size |-> 0, fileName |-> <<>>]
  /\ response' = ErrorResponse(WrappedError(ThrownError(message)))
  /\ pc' = "done"

\* The directory fs.mkdtemp gives the request, and the path the payload is
\* staged at (lines 74-75).
RequestTempDir == TempDirPath(1)

RequestTempFilePath == TempFilePath(RequestTempDir, req.fileName)

\* Lines 121-146 and 40-65: the configuration check, the parsing of the
\* body (req.formData() rejects a body that is not form data, inside the
\* try), the validation of the form fields, and the call of
\* performCloudConversion up to the await of cloudConvert.jobs.create.
PostReceive ==
  /\ pc = "idle"
  /\ \E hasKey \in BOOLEAN, hasForm \in BOOLEAN, hasDocument \in BOOLEAN,
        name \in FileNames, hasInputFileName \in BOOLEAN,
        hasTargetFormat \in BOOLEAN, fmt \in Formats :
       /\ hasForm \/ (~hasDocument /\ ~hasInputFileName /\ ~hasTargetFormat)
       /\ hasDocument \/ name = Name_report_docx
       /\ hasTargetFormat \/ fmt = Str_pdf
       /\ req' = [hasKey |-> hasKey, hasForm |-> hasForm,
                  hasDocument |-> hasDocument, fileName |-> name,
                  hasInputFileName |-> hasInputFileName,
                  hasTargetFormat |-> hasTargetFormat, targetFormat |-> fmt]
       /\ IF ~hasKey
            THEN /\ response' = JsonResponse(500,
                        <<"Server configuration error for conversion service.">>)
                 /\ pc' = "done"
                 /\ UNCHANGED <<outputFormat, trace>>
          ELSE IF ~hasForm
            THEN /\ response' = JsonResponse(500, <<"Failed to parse body as FormData.">>)
                 /\ pc' = "done"
                 /\ UNCHANGED <<outputFormat, trace>>
          ELSE IF ~hasDocument \/ ~hasInputFileName
            THEN /\ response' = JsonResponse(400, <<"No document file provided.">>)
                 /\ pc' = "done"
                 /\ UNCHANGED <<outputFormat, trace>>
          ELSE IF \/ ~hasTargetFormat
                  \/ fmt = <<>>
                  \/ ~Includes(SUPPORTED_DOC_OUTPUT_FORMATS_API, ToLowerCase(fmt))
            THEN /\ response' = JsonResponse(400,
                        <<"Unsupported target format: ">> \o
                        (IF hasTargetFormat THEN fmt ELSE <<"null">>))
                 /\ pc' = "done"
                 /\ UNCHANGED <<outputFormat, trace>>
          ELSE /\ outputFormat' = ToLowerCase(fmt)
               /\ trace' = Append(trace, "create.start")
               /\ pc' = "create"
               /\ UNCHANGED response
  /\ UNCHANGED <<job, tempDirExists, tempFileExists, completedJob, convertedFileName,
                 resultUrl, downloadResponse, downloadSize, outcome>>
  /\ UNCHANGED otherVars

\* Lines 44-74: cloudConvert.jobs.create settles; the import task is looked
\* up and fs.mkdtemp is awaited.
CreateReturns ==
  /\ pc = "create"
  /\ \/ /\ \E message \in {MsgNetwork, MsgUnauthorized} :
             Throw("job-creation", "create.fail", message)
        /\ UNCHANGED job
     \/ \E j \in CreatedJobs :
          /\ job' = j
          /\ IF ~j.hasImportTask
               THEN Throw("upload", "staging.fail",
                          <<"CloudConvert upload task not found in job.">>)
               ELSE /\ trace' = Append(trace, "create.ok")
                    /\ pc' = "mkdtemp"
                    /\ UNCHANGED <<outcome, response>>
  /\ UNCHANGED <<req, tempDirExists, tempFileExists, completedJob, convertedFileName,
                 resultUrl, downloadResponse, downloadSize, outputFormat>>
  /\ UNCHANGED otherVars

\* Lines 74-76: fs.mkdtemp settles; the payload is read and fs.writeFile is
\* awaited.
MkdtempReturns ==
  /\ pc = "mkdtemp"
  /\ \/ /\ Throw("upload", "staging.fail", <<"ENOSPC: mkdtemp">>)
        /\ UNCHANGED tempDirExists
     \/ /\ tempDirExists' = TRUE
        /\ pc' = "writeFile"
        /\ UNCHANGED <<trace, outcome, response>>
  /\ UNCHANGED <<req, job, tempFileExists, completedJob, convertedFileName,
                 resultUrl, downloadResponse, downloadSize, outputFormat>>
  /\ UNCHANGED otherVars

\* Mutant: the upload is started and not awaited; the wait starts at once.
WriteFileReturns_NoAwait ==
  /\ pc = "writeFile"
  /\ tempFileExists' = TRUE
  /\ trace' = trace \o <<"upload.start", "wait.start">>
  /\ pc' = "wait"
  /\ UNCHANGED <<req, job, tempDirExists, completedJob, convertedFileName,
                 resultUrl, downloadResponse, downloadSize, outputFormat, outcome, response>>
  /\ UNCHANGED otherVars

\* Lines 76-79: fs.writeFile settles (it rejects when the parent directory
\* of the path is missing); the upload to the import task is started from a
\* read stream of the staged file and awaited.
WriteFileReturns ==
  /\ pc = "writeFile"
  /\ \/ /\ Throw("upload", "staging.fail", <<"ENOSPC: write">>)
        /\ UNCHANGED tempFileExists
     \/ /\ CanWriteFile(RequestTempFilePath, {1})
        /\ tempFileExists' = TRUE
        /\ trace' = Append(trace, "upload.start")
        /\ pc' = "upload"
        /\ UNCHANGED <<outcome, response>>
  /\ UNCHANGED <<req, job, tempDirExists, completedJob, convertedFileName,
                 resultUrl, downloadResponse, downloadSize, outputFormat>>
  /\ UNCHANGED otherVars

\* Mutant: a rejected upload is logged and the call goes on.
UploadReturns_IgnoresError ==
  /\ pc = "upload"
  /\ \/ /\ trace' = Append(trace, "upload.fail")
        /\ pc' = "rm"
     \/ /\ trace' = Append(trace, "upload.ok")
        /\ pc' = "rm"
  /\ UNCHANGED <<req, job, tempDirExists, tempFileExists, completedJob,
                 convertedFileName, resultUrl, downloadResponse, downloadSize, outputFormat,
                 outcome, response>>
  /\ UNCHANGED otherVars

\* Mutant: a rejected upload is started again.
UploadReturns_Retry ==
  /\ pc = "upload"
  /\ \/ /\ trace' = trace \o <<"upload.fail", "upload.start">>
        /\ UNCHANGED pc
     \/ /\ trace' = Append(trace, "upload.ok")
        /\ pc' = "rm"
  /\ UNCHANGED <<req, job, tempDirExists, tempFileExists, completedJob,
                 convertedFileName, resultUrl, downloadResponse, downloadSize, outputFormat,
                 outcome, response>>
  /\ UNCHANGED otherVars

\* Lines 79-80: cloudConvert.tasks.upload settles; on success fs.rm of the
\* temporary directory is awaited.
UploadReturns ==
  /\ pc = "upload"
  /\ \/ Throw("upload", "upload.fail", MsgNetwork)
     \/ /\ trace' = Append(trace, "upload.ok")
        /\ pc' = "rm"
        /\ UNCHANGED <<outcome, response>>
  /\ UNCHANGED <<req, job, tempDirExists, tempFileExists, completedJob,
                 convertedFileName, resultUrl, downloadResponse, downloadSize, outputFormat>>
  /\ UNCHANGED otherVars

\* Lines 80-83: fs.rm (recursive, force) of the temporary directory
\* settles: the directory and what lies below it are gone, or the removal
\* was refused; after a removal cloudConvert.jobs.wait is awaited.
RmReturns ==
  /\ pc = "rm"
  /\ \/ /\ Throw("upload", "cleanup.fail", <<"EBUSY: rm">>)
        /\ UNCHANGED <<tempDirExists, tempFileExists>>
     \/ /\ tempDirExists' = FALSE
        /\ tempFileExists' =
             (tempFileExists /\ ~IsBelow(RequestTempFilePath, RequestTempDir))
        /\ trace' = Append(trace, "wait.start")
        /\ pc' = "wait"
        /\ UNCHANGED <<outcome, response>>
  /\ UNCHANGED <<req, job, completedJob, convertedFileName, resultUrl,
                 downloadResponse, downloadSize, outputFormat>>
  /\ UNCHANGED otherVars

\* Mutant: a finished job that lists no task is taken as not yet complete
\* and waited for again.
WaitReturns_WaitsAgain ==
  /\ pc = "wait"
  /\ \/ /\ Throw("remote-processing", "wait.fail", MsgNetwork)
        /\ UNCHANGED <<completedJob, convertedFileName, resultUrl>>
     \/ \E cj \in CompletedJobs :
          /\ completedJob' = cj
          /\ IF JobVerdict(cj) = "remote-processing"
               THEN /\ Throw("remote-processing", "wait.fail", JobFailedMessage(cj))
                    /\ UNCHANGED <<convertedFileName, resultUrl>>
             ELSE IF cj.tasks = <<>>
               THEN UNCHANGED <<pc, trace, outcome, response, convertedFileName, resultUrl>>
             ELSE IF JobVerdict(cj) = "export-missing"
               THEN /\ Throw("export-missing", "export.fail",
                        <<"CloudConvert export task failed or did not produce a file.">>)
                    /\ UNCHANGED <<convertedFileName, resultUrl>>
             ELSE /\ convertedFileName' =
                        ConvertedFileName(ResultFile(cj), req.fileName, req.targetFormat)
                  /\ resultUrl' = ResultFile(cj).url
                  /\ trace' = trace \o <<"wait.ok", "export.ok", "download.start">>
                  /\ pc' = "fetch"
                  /\ UNCHANGED <<outcome, response>>
  /\ UNCHANGED <<req, job, tempDirExists, tempFileExists, downloadResponse, downloadSize, outputFormat>>
  /\ UNCHANGED otherVars

\* Lines 83-102: cloudConvert.jobs.wait settles; the job status and the
\* export task are examined, the result name is chosen and the download
\* fetch is awaited.
WaitReturns ==
  /\ pc = "wait"
  /\ \/ /\ Throw("remote-processing", "wait.fail", MsgNetwork)
        /\ UNCHANGED <<completedJob, convertedFileName, resultUrl>>
     \/ \E cj \in CompletedJobs :
          /\ completedJob' = cj
          /\ IF JobVerdict(cj) = "remote-processing"
               THEN /\ Throw("remote-processing", "wait.fail", JobFailedMessage(cj))
                    /\ UNCHANGED <<convertedFileName, resultUrl>>
             ELSE IF JobVerdict(cj) = "export-missing"
               THEN /\ Throw("export-missing", "export.fail",
                        <<"CloudConvert export task failed or did not produce a file.">>)
                    /\ UNCHANGED <<convertedFileName, resultUrl>>
             ELSE /\ convertedFileName' =
                        ConvertedFileName(ResultFile(cj), req.fileName, req.targetFormat)
                  /\ resultUrl' = ResultFile(cj).url
                  /\ trace' = trace \o <<"wait.ok", "export.ok", "download.start">>
                  /\ pc' = "fetch"
                  /\ UNCHANGED <<outcome, response>>
  /\ UNCHANGED <<req, job, tempDirExists, tempFileExists, downloadResponse, downloadSize, outputFormat>>
  /\ UNCHANGED otherVars

\* Mutant: only the body of the download response is looked at, not `ok`.
FetchReturns_IgnoresOk ==
  /\ pc = "fetch"
  /\ \/ /\ Throw("download", "download.fail", <<"fetch failed">>)
        /\ UNCHANGED <<downloadResponse, downloadSize>>
     \/ /\ resultUrl # NoUrl
        /\ \E r \in DownloadResponses :
             /\ (r.ok /\ r.hasBody) \/ r.size = 0
             /\ downloadResponse' = [received |-> TRUE, ok |-> r.ok,
                                     hasBody |-> r.hasBody, size |-> r.size]
             /\ IF ~r.hasBody
                  THEN /\ Throw("download", "download.fail",
                            <<"Failed to download converted file from CloudConvert: ">>)
                       /\ UNCHANGED downloadSize
                  ELSE /\ downloadSize' = r.size
                       /\ pc' = "read"
                       /\ UNCHANGED <<trace, outcome, response>>
  /\ UNCHANGED <<req, job, tempDirExists, tempFileExists, completedJob,
                 convertedFileName, resultUrl, outputFormat>>
  /\ UNCHANGED otherVars

\* Lines 102-106: fetch settles (it rejects when the descriptor has no url);
\* the response is examined and its body is awaited.
FetchReturns ==
  /\ pc = "fetch"
  /\ \/ /\ Throw("download", "download.fail", <<"fetch failed">>)
        /\ UNCHANGED <<downloadResponse, downloadSize>>
     \/ /\ resultUrl # NoUrl
        /\ \E r \in DownloadResponses :
             /\ (r.ok /\ r.hasBody) \/ r.size = 0
             /\ downloadResponse' = [received |-> TRUE, ok |-> r.ok,
                                     hasBody |-> r.hasBody, size |-> r.size]
             /\ IF ~r.ok \/ ~r.hasBody
                  THEN /\ Throw("download", "download.fail",
                            <<"Failed to download converted file from CloudConvert: ">>)
                       /\ UNCHANGED downloadSize
                  ELSE /\ downloadSize' = r.size
                       /\ pc' = "read"
                       /\ UNCHANGED <<trace, outcome, response>>
  /\ UNCHANGED <<req, job, tempDirExists, tempFileExists, completedJob,
                 convertedFileName, resultUrl, outputFormat>>
  /\ UNCHANGED otherVars

\* Lines 106-108 and 148-164: the body is read; performCloudConversion
\* returns and POST builds the headers and answers with the file, or, when
\* headers.set threw on the file name, answers from its catch.
ReadReturns ==
  /\ pc = "read"
  /\ \/ Throw("download", "download.fail", <<"terminated">>)
     \/ /\ trace' = Append(trace, "download.ok")
        /\ outcome' = [kind |-> "ok", stage |-> "none", cause |-> NoMessage,
                       message |-> NoMessage,
                       size |-> downloadSize, fileName |-> convertedFileName]
        /\ response' =
             IF IsByteString(convertedFileName)
               THEN FileResponse(req.targetFormat, downloadSize, convertedFileName)
               ELSE JsonResponse(500, <<"Cannot convert argument to a ByteString">>)
        /\ pc' = "done"
  /\ UNCHANGED <<req, job, tempDirExists, tempFileExists, completedJob,
                 convertedFileName, resultUrl, downloadResponse, downloadSize, outputFormat>>
  /\ UNCHANGED otherVars

Next ==
  \/ PostReceive
  \/ CreateReturns
  \/ MkdtempReturns
  \/ WriteFileReturns
  \/ UploadReturns
  \/ RmReturns
  \/ WaitReturns
  \/ FetchReturns
  \/ ReadReturns

Spec == Init /\ [][Next]_vars

\* The client aborts the request while the handler is suspended.  Nothing
\* in route.ts reads req.signal, so no code runs.
Cancel ==
  /\ pc \notin {"idle", "done"}
  /\ ~cancelled
  /\ cancelled' = TRUE
  /\ UNCHANGED <<pc, req, job, tempDirExists, tempFileExists, completedJob,
                 convertedFileName, resultUrl, downloadResponse, downloadSize,
                 outputFormat, trace, outcome, response, callVars, siteVars>>

NextOrCancel ==
  \/ Next
  \/ Cancel

\* One request whose client may abort it.
SpecCancel == Init /\ [][NextOrCancel]_vars

\* The state of the single request above.
requestVars ==
  <<pc, req, job, tempDirExists, tempFileExists, completedJob, convertedFileName,
    resultUrl, downloadResponse, downloadSize, outputFormat, trace, outcome,
    response, cancelled>>

\* Line 75 for call c.
CallTempFilePath(c) == TempFilePath(TempDirPath(callDir[c]), callName[c])

\* The content of the file at a path; 0 when there is none.  The payload of
\* call c is written as c: the calls carry different payloads.
FileContent(path) ==
  IF \E f \in fsFiles : f.path = path
  THEN (CHOOSE f \in fsFiles : f.path = path).content
  ELSE 0

\* Lines 40-65: call c enters performCloudConversion with its input file
\* and awaits cloudConvert.jobs.create on the shared client (line 14).
CallStart(c) ==
  /\ callPc[c] = "idle"
  /\ \E name \in FileNames : callName' = [callName EXCEPT ![c] = name]
  /\ callPc' = [callPc EXCEPT ![c] = "create"]
  /\ UNCHANGED <<callJob, callDir, callUploaded, fsDirs, fsFiles>>
  /\ UNCHANGED <<requestVars, siteVars>>

\* Lines 44-74: jobs.create settles; the service gives every job an id of
\* its own.  fs.mkdtemp is awaited.
CallCreateReturns(c) ==
  /\ callPc[c] = "create"
  /\ \/ /\ callPc' = [callPc EXCEPT ![c] = "failed"]
        /\ UNCHANGED callJob
     \/ /\ \E id \in Calls \ {callJob[e] : e \in Calls} :
             callJob' = [callJob EXCEPT ![c] = id]
        /\ callPc' = [callPc EXCEPT ![c] = "mkdtemp"]
  /\ UNCHANGED <<callName, callDir, callUploaded, fsDirs, fsFiles>>
  /\ UNCHANGED <<requestVars, siteVars>>

\* Lines 74-76: fs.mkdtemp settles with a directory named by six random
\* characters, one no call has been given before; fs.writeFile is awaited.
CallMkdtempReturns(c) ==
  /\ callPc[c] = "mkdtemp"
  /\ \/ /\ callPc' = [callPc EXCEPT ![c] = "failed"]
        /\ UNCHANGED <<callDir, fsDirs>>
     \/ /\ \E d \in Calls \ {callDir[e] : e \in Calls} :
             /\ callDir' = [callDir EXCEPT ![c] = d]
             /\ fsDirs' = fsDirs \cup {d}
        /\ callPc' = [callPc EXCEPT ![c] = "writeFile"]
  /\ UNCHANGED <<callName, callJob, callUploaded, fsFiles>>
  /\ UNCHANGED <<requestVars, siteVars>>

\* Lines 76-79: fs.writeFile settles, having replaced what the path held;
\* the upload of a read stream of the path is awaited.
CallWriteFileReturns(c) ==
  /\ callPc[c] = "writeFile"
  /\ \/ /\ callPc' = [callPc EXCEPT ![c] = "failed"]
        /\ UNCHANGED fsFiles
     \/ /\ CanWriteFile(CallTempFilePath(c), fsDirs)
        /\ fsFiles' = {f \in fsFiles : f.path # CallTempFilePath(c)}
                         \cup {[path |-> CallTempFilePath(c), content |-> c]}
        /\ callPc' = [callPc EXCEPT ![c] = "upload"]
  /\ UNCHANGED <<callName, callJob, callDir, callUploaded, fsDirs>>
  /\ UNCHANGED <<requestVars, siteVars>>

\* Lines 79-80: tasks.upload settles; the import task of the call's job has
\* received what the stream read at the path.  fs.rm is awaited.
CallUploadReturns(c) ==
  /\ callPc[c] = "upload"
  /\ \/ /\ callPc' = [callPc EXCEPT ![c] = "failed"]
        /\ UNCHANGED callUploaded
     \/ /\ FileContent(CallTempFilePath(c)) # 0
        /\ callUploaded' = [callUploaded EXCEPT ![c] = FileContent(CallTempFilePath(c))]
        /\ callPc' = [callPc EXCEPT ![c] = "rm"]
  /\ UNCHANGED <<callName, callJob, callDir, fsDirs, fsFiles>>
  /\ UNCHANGED <<requestVars, siteVars>>

\* Lines 80-83: fs.rm of the call's directory settles; from jobs.wait on the
\* call works on its remote job only.
CallRmReturns(c) ==
  /\ callPc[c] = "rm"
  /\ \/ /\ callPc' = [callPc EXCEPT ![c] = "failed"]
        /\ UNCHANGED <<fsDirs, fsFiles>>
     \/ /\ fsDirs' = fsDirs \ {callDir[c]}
        /\ fsFiles' = {f \in fsFiles : ~IsBelow(f.path, TempDirPath(callDir[c]))}
        /\ callPc' = [callPc EXCEPT ![c] = "wait"]
  /\ UNCHANGED <<callName, callJob, callDir, callUploaded>>
  /\ UNCHANGED <<requestVars, siteVars>>

NextCalls ==
  \/ \E c \in Calls : CallStart(c)
  \/ \E c \in Calls : CallCreateReturns(c)
  \/ \E c \in Calls : CallMkdtempReturns(c)
  \/ \E c \in Calls : CallWriteFileReturns(c)
  \/ \E c \in Calls : CallUploadReturns(c)
  \/ \E c \in Calls : CallRmReturns(c)

\* Concurrent calls of performCloudConversion in one server process.
SpecCalls == Init /\ [][NextCalls]_vars

(***************************************************************************)
(* The document converter page (document-converter/page.tsx).              *)
(***************************************************************************)
besidesDocPage == <<requestVars, callVars, imgPage, imgReq, trReq>>

\* Object.keys(SUPPORTED_DOC_INPUT_FORMATS)
AcceptedMimeTypes ==
  { "application/pdf", "application/msword",
    "application/vnd.openxmlformats-officedocument.wordprocessingml.document",
    "application/vnd.ms-powerpoint",
    "application/vnd.openxmlformats-officedocument.presentationml.presentation",
    "text/plain", "text/rtf", "text/html" }

\* Object.values(SUPPORTED_DOC_INPUT_FORMATS).flat(), lowercased, dot dropped.
AllAcceptedExtensions ==
  { Str_pdf, Str_doc, Str_docx, <<"p","p","t">>, Str_pptx, Str_txt, Str_rtf,
    Str_html, <<"h","t","m">> }

\* name.split('.').pop(): what follows the last dot, the whole name when
\* it has none.
LastDotPart(name) ==
  IF \E i \in 1..Len(name) : name[i] = "."
    THEN SubSeq(name, SetMax({i \in 1..Len(name) : name[i] = "."}) + 1, Len(name))
    ELSE name

\* Lines 56-61 of onDrop.
IsValidType(file) ==
  \/ file.type \in AcceptedMimeTypes
  \/ /\ LastDotPart(file.name) # <<>>
     /\ ToLowerCase(LastDotPart(file.name)) \in AllAcceptedExtensions

\* Files a user can drop on the page.
DocDropFiles ==
  { [name |-> Name_report_docx, type |-> ""],
    [name |-> <<"a">>, type |-> "application/pdf"],
    [name |-> <<"a">>, type |-> ""] }

\* What POST /api/convert-document can answer to the request handleConvert
\* builds (document, inputFileName and targetFormat are all there): lines
\* 121-164 of convert-document/route.ts.
DocServerResponses(file, format) ==
  {JsonResponse(500, <<"Server configuration error for conversion service.">>)}
  \cup
  (IF ~Includes(SUPPORTED_DOC_OUTPUT_FORMATS_API, ToLowerCase(format))
     THEN {JsonResponse(400, <<"Unsupported target format: ">> \o format)}
     ELSE {ErrorResponse(WrappedError(ThrownError(message))) :
             message \in {MsgNetwork, MsgUnauthorized}}
          \cup {FileResponse(format, 1, n) :
                   n \in {RemoteName, PathParseName(file.name) \o <<".">> \o format}})

\* contentDisposition.match(/filename="?([^"]+)"?/i)[1] on the header the
\* route builds: the name up to its first double quote.
HeaderFileName(name) ==
  IF \E i \in 1..Len(name) : name[i] = "\""
    THEN SubSeq(name, 1, SetMin({i \in 1..Len(name) : name[i] = "\""}) - 1)
    ELSE name

\* Lines 42-73.  The dropzone is rendered while no file is selected.
DocOnDrop ==
  /\ docPage.selectedFile = NoFile
  /\ docPage.drops < MaxDrops
  /\ \E nothing \in BOOLEAN, f \in DocDropFiles :
       /\ nothing => f.name = Name_report_docx
       /\ docPage' =
            [docPage EXCEPT
               !.drops = @ + 1,
               !.convertedFileUrl = NoObjectUrl,
               !.convertedFileName = <<>>,
               !.selectedFile =
                  IF ~nothing /\ IsValidType(f)
                    THEN [id |-> docPage.drops + 1, name |-> f.name, type |-> f.type]
                    ELSE NoFile,
               !.fileName = IF ~nothing /\ IsValidType(f) THEN f.name ELSE <<>>,
               !.error =
                  IF ~nothing /\ ~IsValidType(f)
                    THEN <<"Invalid file type: ">> \o f.name
                           \o <<". Please upload a supported document format.">>
                    ELSE NoMessage]
  /\ UNCHANGED besidesDocPage

\* Lines 81-85.  The select is rendered while a file is selected.
DocHandleFormatChange ==
  /\ docPage.selectedFile # NoFile
  /\ \E i \in 1..Len(SUPPORTED_DOC_OUTPUT_FORMATS) :
       /\ SUPPORTED_DOC_OUTPUT_FORMATS[i] # docPage.targetFormat
       /\ docPage' = [docPage EXCEPT !.targetFormat = SUPPORTED_DOC_OUTPUT_FORMATS[i],
                                      !.convertedFileUrl = NoObjectUrl,
                                      !.convertedFileName = <<>>]
  /\ UNCHANGED besidesDocPage

\* Lines 87-110: handleConvert up to the await of fetch.  The submit button
\* is rendered while a file is selected and disabled while isConverting.
DocHandleConvert ==
  /\ docPage.selectedFile # NoFile
  /\ ~docPage.isConverting
  /\ docPage' = [docPage EXCEPT
                    !.isConverting = TRUE,
                    !.error = NoMessage,
                    !.convertedFileUrl = NoObjectUrl,
                    !.convertedFileName = <<>>,
                    !.convert = [stage |-> "fetch", file |-> docPage.selectedFile,
                                 format |-> docPage.targetFormat,
                                 response |-> NoResponse]]
  /\ UNCHANGED besidesDocPage

\* Lines 139-148.  The remove button is rendered while a file is selected.
DocHandleRemoveDocument ==
  /\ docPage.selectedFile # NoFile
  /\ docPage' = [docPage EXCEPT !.selectedFile = NoFile,
                                 !.fileName = <<>>,
                                 !.error = NoMessage,
                                 !.convertedFileUrl = NoObjectUrl,
                                 !.convertedFileName = <<>>]
  /\ UNCHANGED besidesDocPage

\* The catch and the finally of handleConvert, lines 131-136.
DocConvertFails(message) ==
  docPage' = [docPage EXCEPT !.error = message,
                             !.isConverting = FALSE,
                             !.convert = NoConvert]

\* Lines 107-119: fetch settles.  A response that is not ok has its body
\* parsed next, an ok one has its blob read.
DocFetchReturns ==
  /\ docPage.convert.stage = "fetch"
  /\ \/ DocConvertFails(<<"Failed to fetch">>)
     \/ \E r \in DocServerResponses(docPage.convert.file, docPage.convert.format) :
          docPage' = [docPage EXCEPT
                        !.convert.stage = IF r.status = 200 THEN "blob" ELSE "json",
                        !.convert.response = r]
  /\ UNCHANGED besidesDocPage

\* Lines 113-116: response.json() settles, a rejection being replaced by
\* the fallback object; the message is thrown.
DocJsonReturns ==
  /\ docPage.convert.stage = "json"
  /\ LET r == docPage.convert.response IN
       \/ DocConvertFails(<<"Failed to parse error response.">>)
       \/ DocConvertFails(IF r.details # NoMessage THEN r.details
                           ELSE IF r.error # NoMessage THEN r.error
                           ELSE <<"Conversion failed with status: 500">>)
  /\ UNCHANGED besidesDocPage

\* Lines 119-129 and 134-136: response.blob() settles; the object URL and
\* the download name are stored whatever the page shows by now.
DocBlobReturns ==
  /\ docPage.convert.stage = "blob"
  /\ \/ DocConvertFails(<<"Failed to fetch">>)
     \/ docPage' =
          [docPage EXCEPT
             !.convertedFileUrl = [present |-> TRUE,
                                   file |-> docPage.convert.file.id,
                                   format |-> docPage.convert.format],
             !.convertedFileName =
                IF HeaderFileName(docPage.convert.response.fileName) # <<>>
                  THEN HeaderFileName(docPage.convert.response.fileName)
                  ELSE <<"converted_document.">> \o docPage.convert.format,
             !.isConverting = FALSE,
             !.convert = NoConvert]
  /\ UNCHANGED besidesDocPage

NextDocPage ==
  \/ DocOnDrop
  \/ DocHandleFormatChange
  \/ DocHandleConvert
  \/ DocHandleRemoveDocument
  \/ DocFetchReturns
  \/ DocJsonReturns
  \/ DocBlobReturns

\* The document converter page from its first render on.
SpecDocPage == Init /\ [][NextDocPage]_vars

(***************************************************************************)
(* POST /api/convert (api/convert/route.ts).                               *)
(***************************************************************************)
besidesImgReq == <<requestVars, callVars, docPage, imgPage, trReq>>

\* NextResponse.json({ error }, { status: 400 })
ImgBadRequest(error) ==
  imgReq' = [imgReq EXCEPT
               !.pc = "done", !.failedAt = "validation",
               !.response = [NoImgResponse EXCEPT
                               !.status = 400, !.contentType = "application/json",
                               !.error = error]]

\* Lines 96-103: the catch of POST.
ImgThrow(failedAt, message) ==
  imgReq' = [imgReq EXCEPT
               !.pc = "done", !.failedAt = failedAt,
               !.response = [NoImgResponse EXCEPT
                               !.status = 500, !.contentType = "application/json",
                               !.error = <<"Image conversion failed on server.">>,
                               !.details = message]]

\* Lines 25-29: a request arrives and req.formData() is awaited.
ImgPostReceive ==
  /\ imgReq.pc = "idle"
  /\ \E hasFile \in BOOLEAN, name \in ImgFileNames, hasFormat \in BOOLEAN,
        fmt \in ImgFormats, pages \in 0..MaxPages :
       /\ hasFile \/ (name = <<"a">> /\ pages = 0)
       /\ hasFormat \/ fmt = Str_png
       /\ imgReq' = [imgReq EXCEPT !.pc = "formData", !.hasFile = hasFile,
                                    !.fileName = name, !.hasFormat = hasFormat,
                                    !.targetFormat = fmt, !.pages = pages]
  /\ UNCHANGED besidesImgReq

\* Lines 29-47: the form data is there; the two checks; file.arrayBuffer()
\* is awaited.
ImgFormDataReturns ==
  /\ imgReq.pc = "formData"
  /\ \/ ImgThrow("formData", <<"Failed to parse body as FormData.">>)
     \/ IF ~imgReq.hasFile
          THEN ImgBadRequest(<<"No image file provided.">>)
          ELSE IF ~imgReq.hasFormat \/ imgReq.targetFormat = <<>>
                    \/ ~FormatLookupTruthy(imgReq.targetFormat)
                 THEN ImgBadRequest(<<"Invalid target format.">>)
                 ELSE imgReq' = [imgReq EXCEPT !.pc = "arrayBuffer"]
  /\ UNCHANGED besidesImgReq

\* Lines 47-55: the bytes are there; sharp(imageBuffer) reads the first
\* page only; the first metadata() is awaited.
ImgArrayBufferReturns ==
  /\ imgReq.pc = "arrayBuffer"
  /\ imgReq' = [imgReq EXCEPT !.pc = "metadata", !.animated = FALSE]
  /\ UNCHANGED besidesImgReq

\* Lines 52-58: the first metadata() settles, a rejection being rethrown
\* by its catch; the second metadata() is awaited.
ImgMetadataReturns ==
  /\ imgReq.pc = "metadata"
  /\ \/ ImgThrow("metadata",
                 <<"Could not read image metadata. The file might not be a supported image or is corrupted. Sharp error: ",
                   "Input buffer contains unsupported image format">>)
     \/ imgReq' = [imgReq EXCEPT !.pc = "metadataAgain"]
  /\ UNCHANGED besidesImgReq

\* sharpFormat === 'gif' || sharpFormat === 'webp' || sharpFormat === 'avif'
canBeAnimatedOutput(sharpFormat) == sharpFormat \in {Str_gif, Str_webp, Str_avif}

\* Lines 58-72: the second metadata() settles.  For an input of several
\* pages and a gif, webp or avif target line 63 calls
\* sharpInstance.animated(true): sharp takes `animated` as an option of its
\* constructor and its instances have no method of that name, so the call
\* throws a TypeError.  An inherited key has no sharpFormat, which
\* toFormat rejects.  Otherwise toBuffer() is awaited.
ImgMetadataAgainReturns ==
  /\ imgReq.pc = "metadataAgain"
  /\ IF imgReq.pages > 1 /\ canBeAnimatedOutput(imgReq.targetFormat)
       THEN ImgThrow("animated", <<"sharpInstance.animated is not a function">>)
       ELSE IF ~Includes(SUPPORTED_FORMATS, imgReq.targetFormat)
              THEN ImgThrow("toFormat", <<"Unsupported output format undefined">>)
              ELSE imgReq' = [imgReq EXCEPT !.pc = "toBuffer"]
  /\ UNCHANGED besidesImgReq

\* Lines 70-94: toBuffer() settles; the headers and the 200 response.
ImgToBufferReturns ==
  /\ imgReq.pc = "toBuffer"
  /\ \/ ImgThrow("toBuffer", <<"Input image exceeds pixel limit">>)
     \/ imgReq' =
          [imgReq EXCEPT
             !.pc = "done",
             !.response =
                [NoImgResponse EXCEPT
                   !.status = 200,
                   !.contentType = ImgMimeFor(imgReq.targetFormat),
                   !.asciiFallback =
                      getSafeAsciiFilename(imgReq.fileName, imgReq.targetFormat),
                   !.encodedName =
                      EncodeURIComponent(NamePart(imgReq.fileName) \o <<".">>
                                           \o imgReq.targetFormat),
                   !.animated = imgReq.animated]]
  /\ UNCHANGED besidesImgReq

NextImgReq ==
  \/ ImgPostReceive
  \/ ImgFormDataReturns
  \/ ImgArrayBufferReturns
  \/ ImgMetadataReturns
  \/ ImgMetadataAgainReturns
  \/ ImgToBufferReturns

\* One POST /api/convert request.
SpecImgReq == Init /\ [][NextImgReq]_vars

(***************************************************************************)
(* POST /api/transcribe-video (api/transcribe-video/route.ts).             *)
(***************************************************************************)
besidesTrReq == <<requestVars, callVars, docPage, imgPage, imgReq>>

\* Line 100: path.join(tempSessionDir, videoFile.name)
TempUploadedVideoPath == TempFilePath(SessionDir, trReq.fileName)

\* Lines 31-33: the audio file is named after path.parse(videoPath).name
\* and put into outputDir.
AudioOutputPath(videoPath, outputDir) ==
  Append(outputDir,
         IF videoPath = <<>> THEN <<"_", "audio.mp3">>
         ELSE PathParseName(videoPath[Len(videoPath)]) \o <<"_", "audio.mp3">>)

\* Lines 74-75: the audio file of a YouTube download.
YouTubeAudioPath(outputDir) == Append(outputDir, <<"youtube_", "audio.mp3">>)

\* fs.writeFile can create the file: the path is no directory and its
\* parent is one (the root, os.tmpdir() and the session directory are the
\* directories there are).
TrCanWriteFile(path) ==
  LET isDir(q) == q = <<>> \/ q = TmpRoot \/ (q = SessionDir /\ trReq.dirExists)
  IN  /\ path # <<>>
      /\ ~isDir(path)
      /\ isDir(SubSeq(path, 1, Len(path) - 1))

\* Mutant: a return inside the try block answers without the finally block.
TrRespond_NoFinally(status, error) ==
  trReq' = [trReq EXCEPT !.pc = "done",
                         !.response = [NoTrResponse EXCEPT !.status = status,
                                                           !.error = error]]

\* A return of an error response inside the try block (lines 99, 105, 110)
\* or the catch (lines 117-120): the finally block runs before the response
\* leaves the handler, and fs.rm is awaited.
TrRespond(status, error) ==
  trReq' = [trReq EXCEPT !.pc = "rm",
                         !.pending = [NoTrResponse EXCEPT !.status = status,
                                                          !.error = error]]

\* Lines 88-89: a request arrives and fs.mkdtemp is awaited.
TrPostReceive ==
  /\ trReq.pc = "idle"
  /\ \E operationType \in {"file", "url", "other"}, hasVideo \in BOOLEAN,
        name \in FileNames, hasUrl \in BOOLEAN :
       /\ (operationType = "file" /\ hasVideo) \/ name = Name_report_docx
       /\ operationType = "file" \/ ~hasVideo
       /\ operationType = "url" \/ ~hasUrl
       /\ trReq' = [trReq EXCEPT !.pc = "mkdtemp", !.operationType = operationType,
                                  !.hasVideo = hasVideo, !.fileName = name,
                                  !.hasUrl = hasUrl]
  /\ UNCHANGED besidesTrReq

\* Lines 89-91: fs.mkdtemp settles.  It is awaited outside the try block: a
\* rejection leaves the handler as it is, and no response is built.  Then
\* req.formData() is awaited.
TrMkdtempReturns ==
  /\ trReq.pc = "mkdtemp"
  /\ \/ trReq' = [trReq EXCEPT !.pc = "done"]
     \/ trReq' = [trReq EXCEPT !.pc = "formData", !.dirExists = TRUE]
  /\ UNCHANGED besidesTrReq

\* Lines 91-111: the form data is there; the operation type is looked at.
TrFormDataReturns ==
  /\ trReq.pc = "formData"
  /\ \/ TrRespond(500, <<"Failed to parse body as FormData.">>)
     \/ CASE trReq.operationType = "file" ->
               IF ~trReq.hasVideo
                 THEN TrRespond(400, <<"No video file provided.">>)
                 ELSE trReq' = [trReq EXCEPT !.pc = "arrayBuffer"]
          [] trReq.operationType = "url" ->
               IF ~trReq.hasUrl
                 THEN TrRespond(400, <<"No video URL provided.">>)
                 ELSE trReq' = [trReq EXCEPT !.pc = "videoInfo"]
          [] OTHER -> TrRespond(400, <<"Invalid operation type.">>)
  /\ UNCHANGED besidesTrReq

\* Line 101: videoFile.arrayBuffer() settles and fs.writeFile is awaited.
TrArrayBufferReturns ==
  /\ trReq.pc = "arrayBuffer"
  /\ trReq' = [trReq EXCEPT !.pc = "writeFile"]
  /\ UNCHANGED besidesTrReq

\* Lines 101-102 and 30-43: fs.writeFile settles; ffmpeg is started on the
\* video file.
TrWriteFileReturns ==
  /\ trReq.pc = "writeFile"
  /\ IF TrCanWriteFile(TempUploadedVideoPath)
       THEN \/ TrRespond(500, <<"ENOSPC: write">>)
            \/ trReq' = [trReq EXCEPT
                           !.pc = "extract",
                           !.files = @ \cup {TempUploadedVideoPath},
                           !.written = @ \cup {TempUploadedVideoPath}]
       ELSE TrRespond(500, <<"ENOENT: open">>)
  /\ UNCHANGED besidesTrReq

\* Lines 35-43, 102 and 113-114: ffmpeg ends or fails, having written the
\* audio file or not; fs.readFile of transcribeWithGemini is awaited.
TrExtractReturns ==
  /\ trReq.pc = "extract"
  /\ LET audio == AudioOutputPath(TempUploadedVideoPath, SessionDir) IN
       \/ \E partial \in BOOLEAN :
            trReq' = [trReq EXCEPT
                        !.pc = "rm",
                        !.files = IF partial THEN @ \cup {audio} ELSE @,
                        !.written = IF partial THEN @ \cup {audio} ELSE @,
                        !.pending = [NoTrResponse EXCEPT
                                       !.status = 500,
                                       !.error = <<"FFmpeg failed to extract audio: ",
                                                   "Invalid data found">>]]
       \/ trReq' = [trReq EXCEPT !.pc = "readFile",
                                  !.files = @ \cup {audio},
                                  !.written = @ \cup {audio},
                                  !.audioPath = audio]
  /\ UNCHANGED besidesTrReq

\* Lines 71-73: play.video_info settles; play.stream is awaited.
TrVideoInfoReturns ==
  /\ trReq.pc = "videoInfo"
  /\ \/ TrRespond(500, <<"This is not a YouTube Watch URL">>)
     \/ trReq' = [trReq EXCEPT !.pc = "stream"]
  /\ UNCHANGED besidesTrReq

\* Lines 73-84: play.stream settles; ffmpeg is started on the stream.
TrStreamReturns ==
  /\ trReq.pc = "stream"
  /\ \/ TrRespond(500, <<"Sign in to confirm your age">>)
     \/ trReq' = [trReq EXCEPT !.pc = "download"]
  /\ UNCHANGED besidesTrReq

\* Lines 77-84, 106-108 and 113-114: ffmpeg ends or fails, having written
\* the audio file or not; fs.readFile of transcribeWithGemini is awaited.
TrDownloadReturns ==
  /\ trReq.pc = "download"
  /\ LET audio == YouTubeAudioPath(SessionDir) IN
       \/ \E partial \in BOOLEAN :
            trReq' = [trReq EXCEPT
                        !.pc = "rm",
                        !.files = IF partial THEN @ \cup {audio} ELSE @,
                        !.written = IF partial THEN @ \cup {audio} ELSE @,
                        !.pending = [NoTrResponse EXCEPT
                                       !.status = 500,
                                       !.error = <<"FFmpeg failed during URL processing: ",
                                                   "Invalid data found">>]]
       \/ trReq' = [trReq EXCEPT !.pc = "readFile",
                                  !.files = @ \cup {audio},
                                  !.written = @ \cup {audio},
                                  !.audioPath = audio]
  /\ UNCHANGED besidesTrReq

\* Lines 50-55: fs.readFile settles; model.generateContent is awaited.
TrReadFileReturns ==
  /\ trReq.pc = "readFile"
  /\ IF trReq.audioPath \in trReq.files
       THEN trReq' = [trReq EXCEPT !.pc = "generate"]
       ELSE TrRespond(500, <<"Gemini API transcription failed: ", "ENOENT: open">>)
  /\ UNCHANGED besidesTrReq

\* Lines 55-66 and 114-115: generateContent settles; the catch of
\* transcribeWithGemini wraps an error; the text is returned in a 200
\* response, through the finally block.
TrGenerateReturns ==
  /\ trReq.pc = "generate"
  /\ \/ TrRespond(500, <<"Gemini API transcription failed: ", "fetch failed">>)
     \/ TrRespond(500, <<"Gemini API transcription failed: ",
                         "Could not extract text from Gemini API response.">>)
     \/ trReq' = [trReq EXCEPT !.pc = "rm",
                               !.pending = [NoTrResponse EXCEPT
                                              !.status = 200,
                                              !.transcription = TRUE]]
  /\ UNCHANGED besidesTrReq

\* Lines 121-125: fs.rm of the session directory settles, a rejection being
\* logged and dropped, and the pending response leaves the handler.
TrRmReturns ==
  /\ trReq.pc = "rm"
  /\ \/ trReq' = [trReq EXCEPT !.pc = "done", !.rmFailed = TRUE,
                               !.response = trReq.pending]
     \/ trReq' = [trReq EXCEPT
                    !.pc = "done",
                    !.dirExists = FALSE,
                    !.files = {f \in @ : ~IsBelow(f, SessionDir)},
                    !.response = trReq.pending]
  /\ UNCHANGED besidesTrReq

NextTrReq ==
  \/ TrPostReceive
  \/ TrMkdtempReturns
  \/ TrFormDataReturns
  \/ TrArrayBufferReturns
  \/ TrWriteFileReturns
  \/ TrExtractReturns
  \/ TrVideoInfoReturns
  \/ TrStreamReturns
  \/ TrDownloadReturns
  \/ TrReadFileReturns
  \/ TrGenerateReturns
  \/ TrRmReturns

\* One POST /api/transcribe-video request.
SpecTrReq == Init /\ [][NextTrReq]_vars

(***************************************************************************)
(* The image converter page (page.tsx).                                    *)
(***************************************************************************)
besidesImgPage == <<requestVars, callVars, docPage, imgReq, trReq>>

\* Lines 36-48: the File object of a drop with the properties onDrop adds.
DroppedFile(id, name) ==
  [id |-> id, name |-> name, isFile |-> TRUE, status |-> "pending",
   previewRevoked |-> FALSE, hasConvertedUrl |-> FALSE, convertedRevoked |-> FALSE,
   convertedName |-> <<>>]

\* Lines 183-192: the effect depends on selectedFiles, so every new list
\* runs the cleanup of the effect of the list rendered before, which
\* revokes the preview URL and the converted URL of each file of that
\* list.  `new` is the list being rendered, `old` the one rendered before.
EffectCleanup(old, new) ==
  [i \in 1..Len(new) |->
     IF \E j \in 1..Len(old) : old[j].id = new[i].id
       THEN LET o == old[CHOOSE j \in 1..Len(old) : old[j].id = new[i].id]
            IN  [new[i] EXCEPT
                   !.previewRevoked = TRUE,
                   !.convertedRevoked =
                      new[i].hasConvertedUrl /\ (@ \/ o.hasConvertedUrl)]
       ELSE new[i]]

\* { ...f, status }: the spread copies the own properties of the File
\* object, which name is not (it is an accessor of File.prototype), into a
\* plain object.
SpreadFile(f, newStatus) ==
  [f EXCEPT !.isFile = FALSE, !.name = <<>>, !.status = newStatus]

\* Lines 75-79, without data.
updateFileStatus(files, id, newStatus) ==
  [i \in 1..Len(files) |->
     IF files[i].id = id THEN SpreadFile(files[i], newStatus) ELSE files[i]]

\* Lines 75-79, with the data of lines 117-122: a fresh object URL, the
\* blob and the name.
updateFileStatusConverted(files, id, convertedName) ==
  [i \in 1..Len(files) |->
     IF files[i].id = id
       THEN [SpreadFile(files[i], "converted") EXCEPT
               !.hasConvertedUrl = TRUE, !.convertedRevoked = FALSE,
               !.convertedName = convertedName]
       ELSE files[i]]

\* f.status === 'pending' || f.status === 'error'
PendingOrError(f) == f.status \in {"pending", "error"}

IsConverted(f) == f.status = "converted"

\* Lines 112-115.
DesiredDisplayFileName(originalName, targetFormat) ==
  (IF LastIndexOfDot(originalName) > 0
     THEN Substring0(originalName, LastIndexOfDot(originalName))
     ELSE originalName) \o <<".">> \o targetFormat

\* Lines 34-54.  One file is dropped: an image of a name not dropped
\* before, or a file that is no image and is filtered out.
ImgOnDrop ==
  /\ Cardinality(imgPage.names) < MaxImages
  /\ \/ \E name \in ImgPageNames \ imgPage.names :
          imgPage' =
            [imgPage EXCEPT
               !.globalError = NoMessage,
               !.names = @ \cup {name},
               !.files = EffectCleanup(imgPage.files,
                           Append(imgPage.files,
                                  DroppedFile(Cardinality(imgPage.names) + 1, name)))]
     \/ imgPage' =
          [imgPage EXCEPT
             !.globalError = <<"Some files were not valid images and were ignored.">>,
             !.files = EffectCleanup(imgPage.files, imgPage.files)]
  /\ UNCHANGED besidesImgPage

\* Lines 62-73.  The select is rendered while the list is not empty.
ImgHandleFormatChange ==
  /\ Len(imgPage.files) > 0
  /\ \E format \in ImgChosenFormats \ {imgPage.targetFormat} :
       imgPage' =
         [imgPage EXCEPT
            !.targetFormat = format,
            !.files =
               EffectCleanup(imgPage.files,
                 [i \in 1..Len(imgPage.files) |->
                    IF IsConverted(imgPage.files[i])
                      THEN [SpreadFile(imgPage.files[i], "pending") EXCEPT
                              !.hasConvertedUrl = FALSE, !.convertedRevoked = FALSE,
                              !.convertedName = <<>>]
                      ELSE imgPage.files[i]])]
  /\ UNCHANGED besidesImgPage

\* The file handleConvertAll is converting.
FileToConvert == imgPage.batch.queue[imgPage.batch.idx]

\* Lines 91-98 and 127-128: the loop goes on after the status update of
\* the file just handled, which gave `files`: the next file is marked and
\* its fetch awaited, or the batch ends.
ImgNextFile(files) ==
  IF imgPage.batch.idx < Len(imgPage.batch.queue)
    THEN imgPage' =
           [imgPage EXCEPT
              !.files = EffectCleanup(imgPage.files,
                          updateFileStatus(files,
                            imgPage.batch.queue[imgPage.batch.idx + 1].id,
                            "converting")),
              !.batch = [@ EXCEPT !.idx = @ + 1, !.stage = "fetch"]]
    ELSE imgPage' =
           [imgPage EXCEPT
              !.files = EffectCleanup(imgPage.files, files),
              !.isBatchConverting = FALSE,
              !.batch = NoBatch]

\* Lines 123-126: the catch of the loop body.
ImgFileFails ==
  ImgNextFile(updateFileStatus(imgPage.files, FileToConvert.id, "error"))

\* Lines 81-98: handleConvertAll up to the await of the first fetch.  The
\* submit button is rendered while a file is pending or failed and is
\* disabled while isBatchConverting.
ImgHandleConvertAll ==
  /\ \E i \in 1..Len(imgPage.files) : PendingOrError(imgPage.files[i])
  /\ ~imgPage.isBatchConverting
  /\ LET filesToProcess == SelectSeq(imgPage.files, PendingOrError) IN
       imgPage' =
         [imgPage EXCEPT
            !.isBatchConverting = TRUE,
            !.globalError = NoMessage,
            !.files = EffectCleanup(imgPage.files,
                        updateFileStatus(imgPage.files, filesToProcess[1].id,
                                         "converting")),
            !.batch = [stage |-> "fetch", queue |-> filesToProcess, idx |-> 1,
                       format |-> imgPage.targetFormat]]
  /\ UNCHANGED besidesImgPage

\* Lines 98-108: fetch settles.  formData.append('image', fileToConvert)
\* sends a File as a file part; a plain object is sent as the text
\* "[object Object]", which POST /api/convert answers with 500 (it has no
\* arrayBuffer method).
ImgPageFetchReturns ==
  /\ imgPage.batch.stage = "fetch"
  /\ \/ ImgFileFails
     \/ \E status \in (IF FileToConvert.isFile THEN {200, 500} ELSE {500}) :
          imgPage' = [imgPage EXCEPT
                        !.batch.stage = IF status = 200 THEN "blob" ELSE "json"]
  /\ UNCHANGED besidesImgPage

\* Lines 104-105: response.json() settles and the error is thrown.
ImgPageJsonReturns ==
  /\ imgPage.batch.stage = "json"
  /\ ImgFileFails
  /\ UNCHANGED besidesImgPage

\* Lines 108-122: response.blob() settles; the object URL, the name built
\* with the target format the handler started with, the status update.
ImgPageBlobReturns ==
  /\ imgPage.batch.stage = "blob"
  /\ \/ ImgFileFails
     \/ ImgNextFile(updateFileStatusConverted(imgPage.files, FileToConvert.id,
                       DesiredDisplayFileName(FileToConvert.name,
                                              imgPage.batch.format)))
  /\ UNCHANGED besidesImgPage

\* f.status === 'converted' && f.convertedBlob && f.convertedName
IsConvertedImage(f) == IsConverted(f) /\ f.hasConvertedUrl /\ f.convertedName # <<>>

ConvertedImages == SelectSeq(imgPage.files, IsConvertedImage)

\* Lines 140-143: zip.file(name, blob) for each image in turn; a later
\* file of the same name replaces the entry of the earlier one.
ZipEntries(images) ==
  { [name |-> images[i].convertedName, id |-> images[i].id] :
      i \in {k \in 1..Len(images) :
               \A l \in (k+1)..Len(images) :
                  images[l].convertedName # images[k].convertedName} }

\* Lines 132-145: handleDownloadAllAsZip up to the await of generateAsync.
\* The button is rendered while MIN_FILES_FOR_ZIP files are converted and
\* is disabled while isZipping.
ImgHandleDownloadAllAsZip ==
  /\ Len(SelectSeq(imgPage.files, IsConverted)) >= MIN_FILES_FOR_ZIP
  /\ ~imgPage.isZipping
  /\ IF Len(ConvertedImages) = 0
       THEN imgPage' = [imgPage EXCEPT
                          !.globalError = <<"No converted images available to zip.">>]
       ELSE imgPage' = [imgPage EXCEPT
                          !.isZipping = TRUE,
                          !.globalError = NoMessage,
                          !.zip = [stage |-> "generate",
                                   entries |-> ZipEntries(ConvertedImages),
                                   count |-> Len(ConvertedImages)]]
  /\ UNCHANGED besidesImgPage

\* Lines 145-152: generateAsync settles; the ZIP is saved.
ImgZipReturns ==
  /\ imgPage.zip.stage = "generate"
  /\ \/ imgPage' = [imgPage EXCEPT
                       !.globalError = <<"Failed to generate ZIP file.">>,
                       !.isZipping = FALSE,
                       !.zip = NoZip]
     \/ imgPage' = [imgPage EXCEPT
                       !.savedZip = [imgPage.zip EXCEPT !.stage = "saved"],
                       !.isZipping = FALSE,
                       !.zip = NoZip]
  /\ UNCHANGED besidesImgPage

\* Lines 155-166.  The remove button of a file is disabled while the batch
\* is converting that file.
ImgHandleRemoveImage ==
  /\ \E i \in 1..Len(imgPage.files) :
       /\ ~(imgPage.isBatchConverting /\ imgPage.files[i].status = "converting")
       /\ imgPage' =
            [imgPage EXCEPT
               !.files = EffectCleanup(imgPage.files,
                           SelectSeq(imgPage.files,
                                     LAMBDA f : f.id # imgPage.files[i].id))]
  /\ UNCHANGED besidesImgPage

\* Lines 168-181.  The button is rendered while a file is converted and is
\* disabled while isBatchConverting or isZipping.
ImgHandleClearConverted ==
  /\ \E i \in 1..Len(imgPage.files) : IsConverted(imgPage.files[i])
  /\ ~imgPage.isBatchConverting /\ ~imgPage.isZipping
  /\ imgPage' =
       [imgPage EXCEPT
          !.files = EffectCleanup(imgPage.files,
                      SelectSeq(imgPage.files, LAMBDA f : ~IsConverted(f))),
          !.globalError = NoMessage]
  /\ UNCHANGED besidesImgPage

NextImgPage ==
  \/ ImgOnDrop
  \/ ImgHandleFormatChange
  \/ ImgHandleConvertAll
  \/ ImgPageFetchReturns
  \/ ImgPageJsonReturns
  \/ ImgPageBlobReturns
  \/ ImgHandleDownloadAllAsZip
  \/ ImgZipReturns
  \/ ImgHandleRemoveImage
  \/ ImgHandleClearConverted

\* The image converter page from its first render on.
SpecImgPage == Init /\ [][NextImgPage]_vars

\* One request for which every awaited operation settles: the remote calls
\* respond, the job reaches a terminal state, the filesystem answers.
SpecSettling ==
  /\ Init
  /\ [][Next]_vars
  /\ WF_vars(CreateReturns)
  /\ WF_vars(MkdtempReturns)
  /\ WF_vars(WriteFileReturns)
  /\ WF_vars(UploadReturns)
  /\ WF_vars(RmReturns)
  /\ WF_vars(WaitReturns)
  /\ WF_vars(FetchReturns)
  /\ WF_vars(ReadReturns)

(***************************************************************************)
(* Vocabulary of the properties.                                           *)
(***************************************************************************)
Stages == {"job-creation", "upload", "remote-processing", "export-missing", "download"}

Returned == pc = "done" /\ outcome.kind = "ok"
Failed   == pc = "done" /\ outcome.kind = "fail"

\* The completion wait resolved with a job.
JobObserved == completedJob # NoCompletedJob

FailedAt(stage) == Failed /\ outcome.stage = stage

\* The cause inside `CloudConvert processing failed: CloudConvert job failed: ...`
ReportedCause == SubSeq(outcome.message, 3, Len(outcome.message))

IsJobFailure ==
  /\ Len(outcome.message) >= 3
  /\ SubSeq(outcome.message, 1, 2) =
       <<"CloudConvert processing failed: ", "CloudConvert job failed: ">>

ErrorTasks == {i \in 1..Len(completedJob.tasks) : completedJob.tasks[i].status = "error"}

IsFirstErrorTask(i) == i \in ErrorTasks /\ \A j \in ErrorTasks : i <= j

ExportTasks == {i \in 1..Len(completedJob.tasks) : completedJob.tasks[i].name = ExportTask}

\* The export task is there, finished, and carries at least one descriptor.
ExportCarriesFile ==
  \E i \in ExportTasks :
     /\ completedJob.tasks[i].status = "finished"
     /\ completedJob.tasks[i].result.present
     /\ Len(completedJob.tasks[i].result.files) >= 1

\* The export task is finished and its result-file list is empty or absent.
ExportFinishedEmpty ==
  \E i \in ExportTasks :
     /\ completedJob.tasks[i].status = "finished"
     /\ Len(completedJob.tasks[i].result.files) = 0

FirstDescriptor ==
  completedJob.tasks[CHOOSE i \in ExportTasks : TRUE].result.files[1]

Started(op) == \E i \in 1..Len(trace) : trace[i] = op

(***************************************************************************)
(* C1.  After the call has returned or failed, the temporary location      *)
(* created for upload staging no longer exists, on every exit path.        *)
(* The code removes the directory only after a successful upload           *)
(* (line 80): a failed writeFile or upload leaves it behind.               *)
(***************************************************************************)
C1_TempGoneOnEveryExit ==
  pc = "done" => ~tempDirExists /\ ~tempFileExists

(***************************************************************************)
(* C2.  A call either returns a result with more than zero bytes and a     *)
(* non-empty fileName, or fails at one of the five stages; it never        *)
(* returns an empty success.  The code returns whatever body the download  *)
(* has, also an empty one.                                                 *)
(***************************************************************************)
C2_NeverEmptySuccess ==
  pc = "done" /\ outcome.kind # "none" =>
     \/ outcome.kind = "ok" /\ outcome.size > 0 /\ outcome.fileName # <<>>
     \/ outcome.kind = "fail" /\ outcome.stage \in Stages

(***************************************************************************)
(* C3 as claimed.  A job with status error fails the call as               *)
(* remote-processing, and the cause is a task-level message whenever any   *)
(* task with status error carries one, the job-level message only when no  *)
(* task-level message is available, the generic string only when neither   *)
(* exists.                                                                 *)
(***************************************************************************)
C3_AnyTaskMessagePreferred ==
  pc = "done" /\ JobObserved /\ completedJob.status = "error" =>
     /\ FailedAt("remote-processing")
     /\ IsJobFailure
     /\ LET carrying == {i \in ErrorTasks : completedJob.tasks[i].message # NoMessage}
        IN  IF carrying # {}
              THEN \E i \in carrying : ReportedCause = completedJob.tasks[i].message
            ELSE IF completedJob.message # NoMessage
              THEN ReportedCause = completedJob.message
            ELSE ReportedCause = <<"Unknown error">>

(***************************************************************************)
(* C3 amended.  A job with status error fails the call as                  *)
(* remote-processing; the cause is the message of the first task in task   *)
(* order with status error when that task carries a message, otherwise     *)
(* the job-level message when there is one, otherwise "Unknown error".     *)
(***************************************************************************)
C3_FirstErrorTaskMessage ==
  pc = "done" /\ JobObserved /\ completedJob.status = "error" =>
     /\ FailedAt("remote-processing")
     /\ IsJobFailure
     /\ IF \E i \in ErrorTasks :
             IsFirstErrorTask(i) /\ completedJob.tasks[i].message # NoMessage
          THEN \E i \in ErrorTasks :
                  IsFirstErrorTask(i) /\ ReportedCause = completedJob.tasks[i].message
        ELSE IF completedJob.message # NoMessage
          THEN ReportedCause = completedJob.message
        ELSE ReportedCause = <<"Unknown error">>

\* The first error task carries no message, a later one does, and the job
\* has a message of its own: the job-level message is reported.
C3_Witness ==
  /\ Failed
  /\ JobObserved
  /\ completedJob.status = "error"
  /\ \E i, j \in ErrorTasks :
        /\ IsFirstErrorTask(i)
        /\ i < j
        /\ completedJob.tasks[i].message = NoMessage
        /\ completedJob.tasks[j].message # NoMessage
  /\ completedJob.message = MsgJobFailed
  /\ ReportedCause = MsgJobFailed

(***************************************************************************)
(* C4 as claimed.  Whenever the job has status error and the convert task  *)
(* reports error with "Unsupported output format", whatever the other      *)
(* tasks report, the call fails as remote-processing and the cause string  *)
(* reaching the caller contains that message.                              *)
(***************************************************************************)
ConvertReportsUnsupported ==
  \E i \in ErrorTasks :
     /\ completedJob.tasks[i].name = ConvertTask
     /\ completedJob.tasks[i].message = MsgUnsupported

C4_ConvertMessageAlwaysReported ==
  pc = "done" /\ JobObserved /\ completedJob.status = "error"
     /\ ConvertReportsUnsupported =>
        /\ FailedAt("remote-processing")
        /\ Contains(response.error, MsgUnsupported)

(***************************************************************************)
(* C4 amended.  Whenever the job has status error and the convert task is  *)
(* the first task in task order with status error and reports              *)
(* "Unsupported output format", the call fails as remote-processing and    *)
(* the cause string reaching the caller contains that message.             *)
(***************************************************************************)
ConvertFailsFirstUnsupported ==
  \E i \in ErrorTasks :
     /\ IsFirstErrorTask(i)
     /\ completedJob.tasks[i].name = ConvertTask
     /\ completedJob.tasks[i].message = MsgUnsupported

C4_FirstFailingConvertMessageReported ==
  pc = "done" /\ JobObserved /\ completedJob.status = "error"
     /\ ConvertFailsFirstUnsupported =>
        /\ FailedAt("remote-processing")
        /\ response.status = 500
        /\ Contains(response.error, MsgUnsupported)

\* The convert task fails with the message, the export task after it fails
\* with its own message, and the job has a message too.
C4_Witness ==
  /\ Failed
  /\ JobObserved
  /\ completedJob.status = "error"
  /\ completedJob.message = MsgJobFailed
  /\ ConvertFailsFirstUnsupported
  /\ \E j \in ErrorTasks : completedJob.tasks[j].message = MsgInputFailed
  /\ Contains(response.error, MsgUnsupported)

(***************************************************************************)
(* C5 as claimed.  Whenever the export task of the completed job is        *)
(* finished with an empty or absent result-file list, the call fails as    *)
(* export-missing and not as remote-processing, for every job status the   *)
(* wait can return.                                                        *)
(***************************************************************************)
C5_EmptyExportAlwaysExportMissing ==
  pc = "done" /\ JobObserved /\ ExportFinishedEmpty =>
     FailedAt("export-missing")

(***************************************************************************)
(* C5 amended.  Whenever the export task of the completed job is finished  *)
(* with an empty or absent result-file list, the call fails as             *)
(* export-missing when the job status is not error, and as                 *)
(* remote-processing when the job status is error (the status is examined  *)
(* first).                                                                 *)
(***************************************************************************)
C5_EmptyExportAfterJobStatus ==
  pc = "done" /\ JobObserved /\ ExportFinishedEmpty =>
     IF completedJob.status = "error"
       THEN FailedAt("remote-processing") /\ IsJobFailure
       ELSE /\ FailedAt("export-missing")
            /\ outcome.message =
                 <<"CloudConvert processing failed: ",
                   "CloudConvert export task failed or did not produce a file.">>

\* A finished job whose export task finished with a result and no files.
C5_Witness ==
  /\ FailedAt("export-missing")
  /\ completedJob.status = "finished"
  /\ \E i \in ExportTasks :
        /\ completedJob.tasks[i].status = "finished"
        /\ completedJob.tasks[i].result.present
        /\ completedJob.tasks[i].result.files = <<>>

(***************************************************************************)
(* C6 as claimed.  The download step is reached only if the completed job  *)
(* contains the export task, finished, with at least one result file       *)
(* descriptor; if the export task is absent, not finished or has no result *)
(* files, the call fails with export-missing and no download is attempted. *)
(***************************************************************************)
C6_NoExportMeansExportMissing ==
  /\ Started("download.start") => JobObserved /\ ExportCarriesFile
  /\ pc = "done" /\ JobObserved /\ ~ExportCarriesFile =>
        FailedAt("export-missing") /\ ~Started("download.start")

(***************************************************************************)
(* C6 amended.  The download step is reached only if the completed job     *)
(* contains the export task, finished, with at least one result file       *)
(* descriptor; if the export task is absent, not finished or has no result *)
(* files, no download is attempted and the call fails: with export-missing *)
(* when the job status is not error, with remote-processing when it is.    *)
(***************************************************************************)
C6_DownloadOnlyWithExportedFile ==
  /\ Started("download.start") => JobObserved /\ ExportCarriesFile
  /\ pc = "done" /\ JobObserved /\ ~ExportCarriesFile =>
        /\ ~Started("download.start")
        /\ IF completedJob.status = "error"
             THEN FailedAt("remote-processing")
             ELSE FailedAt("export-missing")

\* A finished job whose export task ended in error with a result left on
\* it: the call has failed and nothing was downloaded.
C6_Witness ==
  /\ FailedAt("export-missing")
  /\ ~Started("download.start")
  /\ \E i \in ExportTasks :
        /\ completedJob.tasks[i].status = "error"
        /\ completedJob.tasks[i].result = StaleResult

(***************************************************************************)
(* File names as the properties speak of them.                             *)
(***************************************************************************)
\* The part of s before its last dot; s itself when it has no dot after
\* its first character or is "..".
WithoutExtension(s) ==
  IF s # <<".", ".">> /\ \E i \in 2..Len(s) : s[i] = "."
    THEN SubSeq(s, 1, SetMax({i \in 2..Len(s) : s[i] = "."}) - 1)
    ELSE s

RECURSIVE DropTrailingSlashes(_)
DropTrailingSlashes(s) ==
  IF s # <<>> /\ s[Len(s)] = "/"
    THEN DropTrailingSlashes(SubSeq(s, 1, Len(s) - 1))
    ELSE s

RECURSIVE TailComponent(_)
TailComponent(s) ==
  IF s = <<>> \/ s[Len(s)] = "/"
    THEN <<>>
    ELSE Append(TailComponent(SubSeq(s, 1, Len(s) - 1)), s[Len(s)])

\* The last path component of a file name.
LastComponent(s) == TailComponent(DropTrailingSlashes(s))

(***************************************************************************)
(* C7 as claimed.  On success the fileName is the filename of the first    *)
(* result descriptor when it carries one; otherwise the original file name *)
(* without its extension, then '.', then the target format.                *)
(***************************************************************************)
C7_NameFromWholeOriginalName ==
  Returned =>
     outcome.fileName =
       IF FirstDescriptor.filename # <<>>
         THEN FirstDescriptor.filename
         ELSE WithoutExtension(req.fileName) \o <<".">> \o req.targetFormat

(***************************************************************************)
(* C7 amended.  On success the fileName is the filename of the first       *)
(* result descriptor when it carries one; otherwise the last path          *)
(* component of the original file name without its extension, then '.',    *)
(* then the target format as sent in the request ("report.docx" with       *)
(* "pdf" gives "report.pdf").  Later descriptors have no influence.        *)
(***************************************************************************)
C7_NameFromLastComponent ==
  Returned =>
     outcome.fileName =
       IF FirstDescriptor.filename # <<>>
         THEN FirstDescriptor.filename
         ELSE WithoutExtension(LastComponent(req.fileName))
                \o <<".">> \o req.targetFormat

\* "report.docx" to "pdf", the first of two descriptors without a filename,
\* the second with one: the result is "report.pdf".
C7_Witness ==
  /\ Returned
  /\ req.fileName = Name_report_docx
  /\ req.targetFormat = Str_pdf
  /\ FirstDescriptor.filename = <<>>
  /\ \E i \in ExportTasks :
        /\ Len(completedJob.tasks[i].result.files) = 2
        /\ completedJob.tasks[i].result.files[2].filename = RemoteName
  /\ outcome.fileName = Name_report_pdf

(***************************************************************************)
(* C8.  The target format is normalized to lowercase everywhere it is      *)
(* used: the validation, the output format sent to the convert task, the   *)
(* Content-Type and the synthesized fileName depend only on the lowercased *)
(* target format.  The code lowercases in the first three places and not   *)
(* in the synthesized fileName (line 98).                                  *)
(***************************************************************************)
C8_LowercaseEverywhere ==
  /\ Started("create.start") =>
        /\ Includes(SUPPORTED_DOC_OUTPUT_FORMATS_API, ToLowerCase(req.targetFormat))
        /\ outputFormat = ToLowerCase(req.targetFormat)
  /\ response.status = 200 =>
        /\ response.contentType = MimeTypeFor(ToLowerCase(req.targetFormat))
        /\ FirstDescriptor.filename = <<>> =>
              response.fileName =
                WithoutExtension(LastComponent(req.fileName))
                  \o <<".">> \o ToLowerCase(req.targetFormat)

(***************************************************************************)
(* C9.  Within one call the stages happen in the strict order job          *)
(* creation, upload, completion wait, export resolution, download: what    *)
(* the call has started and completed is always an initial part of that    *)
(* sequence, ended at most by the failure of the step that was running.    *)
(***************************************************************************)
StageOrder ==
  <<"create.start", "create.ok", "upload.start", "upload.ok",
    "wait.start", "wait.ok", "export.ok", "download.start", "download.ok">>

IsFailure(e) ==
  e \in {"create.fail", "staging.fail", "upload.fail", "cleanup.fail", "wait.fail",
         "export.fail", "download.fail"}

\* The failures that can follow the first k steps of StageOrder.
FailuresAfter(k) ==
  CASE k = 1 -> {"create.fail", "staging.fail"}
    [] k = 2 -> {"staging.fail"}
    [] k = 3 -> {"upload.fail"}
    [] k = 4 -> {"cleanup.fail"}
    [] k = 5 -> {"wait.fail", "export.fail"}
    [] k = 8 -> {"download.fail"}
    [] OTHER -> {}

C9_StagesInOrder ==
  \E k \in 0..Len(StageOrder) :
     \/ trace = SubSeq(StageOrder, 1, k)
     \/ \E f \in FailuresAfter(k) : trace = Append(SubSeq(StageOrder, 1, k), f)

\* A call that went through all the stages.
C9_Witness == Returned /\ trace = StageOrder

(***************************************************************************)
(* C10.  No retries: each of create-job, upload, wait and download is      *)
(* started at most once in a call, and after the first step that fails     *)
(* nothing more is started and the call has failed.                        *)
(***************************************************************************)
C10_NoRetries ==
  /\ \A i, j \in 1..Len(trace) :
        trace[i] = trace[j] /\ ~IsFailure(trace[i]) => i = j
  /\ \A i \in 1..Len(trace) :
        IsFailure(trace[i]) => i = Len(trace) /\ Failed /\ response.status = 500

\* The upload was rejected: it was started once and the call has failed.
C10_Witness ==
  /\ Failed
  /\ trace = <<"create.start", "create.ok", "upload.start", "upload.fail">>

(***************************************************************************)
(* Concurrent calls.                                                       *)
(***************************************************************************)
\* Call c has staged its payload and not yet failed.
Staged(c) == callPc[c] \in {"upload", "rm", "wait"}

\* C11: concurrent calls never interfere: each call has a remote job of
\* its own, no two calls stage their payload at the same path, and the
\* import task of a call receives that call's payload whatever the
\* interleaving.
C11_CallsNeverInterfere ==
  /\ \A c \in Calls : \A e \in Calls \ {c} :
        callJob[c] # 0 => callJob[c] # callJob[e]
  /\ \A c \in Calls : \A e \in Calls \ {c} :
        Staged(c) /\ Staged(e) => CallTempFilePath(c) # CallTempFilePath(e)
  /\ \A c \in Calls : callUploaded[c] \in {0, c}

(***************************************************************************)
(* Error handling.                                                         *)
(***************************************************************************)
\* A step of the call has ended in an error.
FailureRecorded == \E i \in 1..Len(trace) : IsFailure(trace[i])

\* The stage a caller can read off the text of a failure, from the wording
\* the orchestrator gives its own errors; "none" when the text names none.
StageTagOf(error) ==
  CASE Contains(error, <<"CloudConvert upload task not found in job.">>) -> "upload"
    [] Contains(error, <<"CloudConvert job failed: ">>) -> "remote-processing"
    [] Contains(error, <<"CloudConvert export task failed or did not produce a file.">>)
         -> "export-missing"
    [] Contains(error, <<"Failed to download converted file from CloudConvert: ">>)
         -> "download"
    [] OTHER -> "none"

C13_NothingStagedOnceWaiting ==
  /\ Started("wait.start") => ~tempDirExists /\ ~tempFileExists
  /\ \A stage \in {"remote-processing", "export-missing", "download"} :
        FailedAt(stage) => ~tempDirExists /\ ~tempFileExists

(***************************************************************************)
(* The HTTP boundary.                                                      *)
(***************************************************************************)
\* The orchestrator was never invoked for the request: no remote job, no
\* temporary directory or file, no step started.
NeverInvoked ==
  /\ trace = <<>>
  /\ job = NoJob
  /\ ~tempDirExists /\ ~tempFileExists
  /\ outcome = NoOutcome

\* Two strings are equal up to the case of their letters.
SameIgnoringCase(a, b) ==
  /\ Len(a) = Len(b)
  /\ \A k \in 1..Len(a) : ToLowerChar(a[k]) = ToLowerChar(b[k])

\* The request lacks the document part, the original-filename field or the
\* target format, or names a target format outside the allow-list.
InvalidRequest ==
  \/ ~req.hasDocument
  \/ ~req.hasInputFileName
  \/ ~req.hasTargetFormat
  \/ \A i \in 1..Len(SUPPORTED_DOC_OUTPUT_FORMATS_API) :
        ~SameIgnoringCase(req.targetFormat, SUPPORTED_DOC_OUTPUT_FORMATS_API[i])

\* C14 as stated: a request that is answered and lacks the document part,
\* the original-filename field or the target format, or names a format
\* outside the allow-list (compared case-insensitively), is answered 400,
\* and the orchestrator is never invoked for it.
C14_InvalidRequestGets400 ==
  pc = "done" /\ InvalidRequest => response.status = 400 /\ NeverInvoked

\* C14 as amended: when the API key is configured and the body parses as
\* form data, such a request is answered 400, and only such a request is;
\* without the key, or with a body that does not parse, the answer is 500.
\* In all these cases the orchestrator is never invoked.
C14_InvalidRequestGets400WhenConfigured ==
  /\ pc = "done" /\ InvalidRequest => NeverInvoked
  /\ pc = "done" /\ req.hasKey /\ req.hasForm =>
        (InvalidRequest <=> response.status = 400)
  /\ pc = "done" /\ ~(req.hasKey /\ req.hasForm) =>
        response.status = 500 /\ NeverInvoked

\* A configured server has rejected a request for the format "doc".
C14_Witness ==
  /\ pc = "done"
  /\ req.hasKey /\ req.hasForm /\ req.hasDocument /\ req.hasInputFileName
  /\ req.hasTargetFormat /\ req.targetFormat = <<"d", "o", "c">>
  /\ response = JsonResponse(400, <<"Unsupported target format: ", "d", "o", "c">>)
  /\ NeverInvoked

\* C15: POST answers 200 only when the orchestrator returned a result, and
\* every failure of the orchestrator, at any of the five stages, is answered
\* 500 with a JSON body whose error string is not empty: never a 2xx
\* status, never a binary body.
C15_StatusFollowsOutcome ==
  /\ response.status = 200 => Returned /\ ~FailureRecorded
  /\ \A stage \in Stages :
        FailedAt(stage) => /\ response.status = 500
                           /\ response.contentType = "application/json"
                           /\ response.error # NoMessage
                           /\ response.size = 0
                           /\ response.fileName = <<>>
  /\ Failed => outcome.stage \in Stages

\* The body of the download broke off: the last of the five stages failed
\* and the answer is a 500.
C15_Witness ==
  /\ FailedAt("download")
  /\ trace[Len(trace)] = "download.fail"
  /\ downloadResponse.received /\ downloadResponse.ok /\ downloadResponse.hasBody
  /\ response.status = 500

\* C16: when the orchestrator has returned a result, POST answers 200 with
\* Content-Type the MIME type the table gives for the lowercased target
\* format (application/octet-stream when the table has none) and with a
\* Content-Disposition whose filename is the fileName of the result.
C16_SuccessHeaders ==
  Returned =>
     /\ response.status = 200
     /\ \A i \in 1..Len(MimeKeys) :
           SameIgnoringCase(req.targetFormat, MimeKeys[i]) =>
              response.contentType = MimeValues[i]
     /\ (\A i \in 1..Len(MimeKeys) : ~SameIgnoringCase(req.targetFormat, MimeKeys[i])) =>
           response.contentType = "application/octet-stream"
     /\ response.fileName = outcome.fileName

(***************************************************************************)
(* Upload and download.                                                    *)
(***************************************************************************)
\* The completion wait, the export resolution or the download was started.
LaterStageStarted ==
  \E i \in 1..Len(trace) :
     trace[i] \in {"wait.start", "wait.ok", "wait.fail", "export.ok", "export.fail",
                   "download.start", "download.ok", "download.fail"}

\* C17: when the created job has no import task (or the task has no id),
\* or the upload transport reports an error, the call fails with the upload
\* failure, answered 500 with that cause, and the completion wait, the
\* export resolution and the download are never started.
C17_NoUploadNoLaterStage ==
  /\ job # NoJob /\ ~job.hasImportTask =>
        /\ FailedAt("upload")
        /\ response = JsonResponse(500, <<"CloudConvert processing failed: ",
                                          "CloudConvert upload task not found in job.">>)
        /\ ~Started("upload.start")
        /\ ~tempDirExists
        /\ ~LaterStageStarted
  /\ Started("upload.fail") =>
        /\ FailedAt("upload")
        /\ response = JsonResponse(500, <<"CloudConvert processing failed: ">> \o MsgNetwork)
        /\ ~LaterStageStarted

\* The job came back without an import task.
C17_Witness ==
  /\ job # NoJob /\ ~job.hasImportTask
  /\ FailedAt("upload")
  /\ trace = <<"create.start", "staging.fail">>

\* The call has failed without handing any byte to the caller.
DownloadFailedNoBytes ==
  /\ FailedAt("download")
  /\ trace[Len(trace)] = "download.fail"
  /\ outcome.size = 0
  /\ response.status = 500 /\ response.size = 0

\* C18: the orchestrator returns a result only if the GET on the URL of the
\* first result descriptor answered successfully with a readable body; when
\* the response is not successful or has no body, or the descriptor has no
\* URL, the call fails with the download failure and returns no bytes.
C18_ResultOnlyFromGoodDownload ==
  /\ Returned =>
        /\ FirstDescriptor.url # NoUrl
        /\ resultUrl = FirstDescriptor.url
        /\ downloadResponse.received
        /\ downloadResponse.ok /\ downloadResponse.hasBody
        /\ outcome.size = downloadResponse.size
  /\ downloadResponse.received /\ ~(downloadResponse.ok /\ downloadResponse.hasBody) =>
        /\ DownloadFailedNoBytes
        /\ response.error = <<"CloudConvert processing failed: ",
                              "Failed to download converted file from CloudConvert: ">>
  /\ pc = "done" /\ Started("download.start") /\ FirstDescriptor.url = NoUrl =>
        /\ DownloadFailedNoBytes
        /\ ~downloadResponse.received

\* The GET was answered, but not successfully.
C18_Witness ==
  /\ downloadResponse.received /\ ~downloadResponse.ok /\ downloadResponse.hasBody
  /\ DownloadFailedNoBytes

(***************************************************************************)
(* Termination.                                                            *)
(***************************************************************************)
\* C19: when every awaited call settles (the remote calls respond and the
\* job reaches a terminal state), a call that has begun ends with a result
\* or a failure; and the orchestrator has no timeout of its own: nothing
\* happens in a call waiting for the job until jobs.wait settles, with the
\* completed job or with its error, and then the wait is over.
C19_EveryCallEnds ==
  /\ (pc \notin {"idle", "done"}) ~> (Returned \/ Failed)
  /\ [][pc = "wait" =>
            /\ pc' # "wait"
            /\ \/ completedJob' # NoCompletedJob
               \/ trace' = Append(trace, "wait.fail") /\ outcome'.cause = MsgNetwork]_vars

\* A call is waiting for its job.
C19_Witness ==
  /\ pc = "wait"
  /\ trace[Len(trace)] = "wait.start"
  /\ completedJob = NoCompletedJob
  /\ outcome = NoOutcome

(***************************************************************************)
(* Cancellation.                                                           *)
(***************************************************************************)
\* C20: when the caller cancels the request at a suspension point (job
\* creation, upload, completion wait, download), the orchestrator stops
\* waiting: from then on no step of the call is started or completed, the
\* temporary directory and file are gone, and no result is returned.
C20_CancelStopsTheCall ==
  cancelled =>
     /\ ~Returned
     /\ response.status # 200
     /\ ~tempDirExists /\ ~tempFileExists
     /\ pc = "done"

(***************************************************************************)
(* The document converter page and its route.                              *)
(***************************************************************************)
\* The answer to the request of the running handleConvert says that the
\* target format is not supported.
RejectedAsUnsupported ==
  /\ docPage.convert.response.status = 400
  /\ Contains(docPage.convert.response.error, <<"Unsupported target format: ">>)

\* C21: every target format the document converter page offers and can
\* submit is in the allow-list of POST /api/convert-document, so a request
\* built by the page is never rejected with 400 "Unsupported target format".
C21_PageRequestNeverUnsupported ==
  docPage.convert.stage # "none" =>
     /\ Includes(SUPPORTED_DOC_OUTPUT_FORMATS, docPage.convert.format)
     /\ ~RejectedAsUnsupported

\* The remote operation that failed rejected with an error carrying the
\* body of an HTTP response.
FailedWithResponseData == Failed /\ ResponseDataOf(outcome.cause) # NoMessage

\* C22: when a remote-service operation inside the orchestrator fails with
\* an error that carries response data or details, the 500 response of
\* POST /api/convert-document reports that data in its details field.
C22_DetailsReportResponseData ==
  FailedWithResponseData =>
     /\ response.status = 500
     /\ response.details = ResponseDataOf(outcome.cause)

\* The page renders the download link (line 250).
DownloadLinkShown ==
  docPage.convertedFileUrl.present /\ docPage.convertedFileName # <<>>

\* C29: under every interleaving of an in-flight handleConvert with
\* handleRemoveDocument, onDrop and handleFormatChange, a download link is
\* present only while a document is selected and belongs to the selected
\* document and the selected target format; once the conversion has
\* settled isConverting is false.
C29_LinkBelongsToSelection ==
  /\ DownloadLinkShown =>
        /\ docPage.selectedFile # NoFile
        /\ docPage.convertedFileUrl.file = docPage.selectedFile.id
        /\ docPage.convertedFileUrl.format = docPage.targetFormat
  /\ docPage.convert.stage = "none" => ~docPage.isConverting

(***************************************************************************)
(* The image conversion route.                                             *)
(***************************************************************************)
\* The uploaded image has several pages and the request asks for a format
\* that can carry them.
AnimationExpected ==
  /\ imgReq.pages > 1
  /\ imgReq.targetFormat \in {<<"g","i","f">>, <<"w","e","b","p">>, <<"a","v","i","f">>}

\* The request was answered, and neither the reading of the input nor the
\* encoding of the output failed.
ImgAnswered == imgReq.pc = "done" /\ imgReq.failedAt \notin {"formData", "validation", "metadata", "toBuffer", "toFormat"}

\* C23: in POST /api/convert animation is preserved exactly when the input
\* image has more than one page and the target format is gif, webp or avif;
\* for every other combination the output is a static image, and an
\* animated input never makes the request fail because the target format
\* is static.
C23_AnimationFollowsPagesAndFormat ==
  ImgAnswered =>
     /\ imgReq.response.status = 200
     /\ imgReq.response.animated <=> AnimationExpected

\* A name has an extension when a dot follows its first character; the
\* last extension starts at the last dot.
HasExtension(name) == \E i \in 2..Len(name) : name[i] = "."

WithoutLastExtension(name) ==
  IF HasExtension(name)
    THEN LET dot == CHOOSE i \in 2..Len(name) :
                      name[i] = "." /\ \A j \in (i+1)..Len(name) : name[j] # "."
         IN  SubSeq(name, 1, dot - 1)
    ELSE name

\* The characters that are not printable ASCII, and the nine characters
\* that are replaced although they are.
NotPrintable == {"U+0009", "U+00E9", "U+6587"}
Reserved == {"\\", "/", ":", "*", "?", "\"", "<", ">", "|"}

Underscored(s) ==
  [i \in 1..Len(s) |-> IF s[i] \in NotPrintable \cup Reserved THEN "_" ELSE s[i]]

\* C24: for every original file name and every supported target format the
\* ASCII fallback filename in the Content-Disposition header of
\* POST /api/convert is the original name without its last extension (the
\* whole name when it has none) with every character outside printable
\* ASCII and every one of \ / : * ? " < > | replaced by an underscore,
\* followed by '.' and the target format; it contains no double quote and
\* no character outside ASCII.
C24_AsciiFallback ==
  imgReq.response.status = 200 =>
     /\ imgReq.response.asciiFallback =
          Underscored(WithoutLastExtension(imgReq.fileName))
            \o <<".">> \o imgReq.targetFormat
     /\ \A i \in 1..Len(imgReq.response.asciiFallback) :
          imgReq.response.asciiFallback[i] \notin NotPrintable \cup {"\""}

\* An image named a"b.c was converted to png.
C24_Witness ==
  /\ imgReq.response.status = 200
  /\ imgReq.fileName = <<"a", "\"", "b", ".", "c">>
  /\ imgReq.response.asciiFallback = <<"a", "_", "b", ".", "p", "n", "g">>

(***************************************************************************)
(* The transcription route and the staging of uploads.                     *)
(***************************************************************************)
\* The handler of POST /api/transcribe-video has produced a response.
TrResponded == trReq.response.status # 0

\* Nothing of the session is left: neither the directory nor a file the
\* request wrote into it.
SessionRemoved ==
  /\ ~trReq.dirExists
  /\ \A f \in trReq.written : IsBelow(f, SessionDir) => f \notin trReq.files

\* C25: POST /api/transcribe-video removes its session directory on every
\* exit path: once the handler has produced a response (200, 400 or 500)
\* the session directory and every file the request wrote into it have
\* been removed.
C25_SessionRemovedOnEveryExit == TrResponded => SessionRemoved

\* C25, amended: once the handler has produced a response the removal of
\* the session directory has been run, the response is the one the return
\* or the catch built, and unless the removal itself failed the session
\* directory and every file the request wrote into it are gone.
C25_SessionRemovedUnlessRmFailed ==
  /\ TrResponded => trReq.pc = "done" /\ trReq.response = trReq.pending
  /\ TrResponded /\ ~trReq.rmFailed => SessionRemoved
  /\ trReq.rmFailed => TrResponded

\* A request wrote a file into its session directory, failed, and the
\* directory was removed before the 500 response.
C25_Witness ==
  /\ trReq.response.status = 500
  /\ ~trReq.rmFailed
  /\ \E f \in trReq.written : IsBelow(f, SessionDir)
  /\ SessionRemoved

\* C26: for every uploaded file name the file a request stages lies inside
\* the request's own temporary directory (the cc-upload- directory of a
\* document conversion, the transcribe-session- directory of a
\* transcription), so that removing the directory removes the file and no
\* request writes outside its own directory.
C26_StagedInsideOwnDirectory ==
  /\ tempFileExists => IsBelow(RequestTempFilePath, RequestTempDir)
  /\ \A f \in trReq.written : IsBelow(f, SessionDir)

(***************************************************************************)
(* The image converter page.                                               *)
(***************************************************************************)
\* C27: after any sequence of drops, conversions, format changes and
\* removals, the preview URL and the converted URL of every file still in
\* the selected-files list have not been revoked.
C27_ListedUrlsNotRevoked ==
  \A i \in 1..Len(imgPage.files) :
     /\ ~imgPage.files[i].previewRevoked
     /\ imgPage.files[i].hasConvertedUrl => ~imgPage.files[i].convertedRevoked

\* The name ends with a dot and the format.
EndsWithFormat(name, format) ==
  /\ Len(name) > Len(format)
  /\ SubSeq(name, Len(name) - Len(format), Len(name)) = <<".">> \o format

\* C28: under every interleaving of a running handleConvertAll with
\* handleFormatChange, every file whose status is converted was converted
\* to the selected target format: its converted name ends with it.
C28_ConvertedToSelectedFormat ==
  \A i \in 1..Len(imgPage.files) :
     imgPage.files[i].status = "converted" =>
        EndsWithFormat(imgPage.files[i].convertedName, imgPage.targetFormat)

\* C30: the ZIP handleDownloadAllAsZip produces has exactly one entry for
\* every converted file, whatever the names of the selected files.
C30_ZipHasAnEntryPerFile ==
  imgPage.savedZip.stage = "saved" =>
     Cardinality(imgPage.savedZip.entries) = imgPage.savedZip.count

====
